---- MODULE Spec2Model ----
(***************************************************************************)
(* Model of the AVR ASM Navigator extension (vscode-avr-asm-navigator/     *)
(* extension.js): the per-scope pack index cache with its in-flight build  *)
(* promises and invalidation events, the pack index build itself, the      *)
(* providers and commands that query the index, and the functions that     *)
(* resolve the device and the pack root, compare version labels, infer the *)
(* device from the workspace text and cache the local symbols.             *)
(***************************************************************************)
EXTENDS Integers, Sequences, FiniteSets, TLC

(***************************************************************************)
(* Bounds of the model.                                                    *)
(***************************************************************************)
MaxBuilds == 2
MaxCalls == 3
MaxEventFiles == 2
MaxPackFiles == 2
MaxLines == 11
MaxRebuilds == 2
MaxTextLines == 21
MaxVersionLength == 2
MaxWorkspaceFiles == 61
MaxVersion == 2

(***************************************************************************)
(* Program constants.                                                      *)
(***************************************************************************)
INDEX_SCOPE_GLOBAL == "__global__"
MaxOccurrences == 20

\* Workspace folders that may be open, and the "no folder" sentinel.
Folders == {"w1"}
NoFolder == "none"
NoScope == "null"

\* File names that events may carry; the part of a path the code looks at.
FileNames == {"main.S", "app.mplab.json", "notes.txt"}

\* path.extname(name).toLowerCase()
LowerExtname(name) ==
  CASE name = "main.S" -> ".s"
    [] name = "app.mplab.json" -> ".json"
    [] name = "gone.s" -> ".s"
    [] name = "lib.asm" -> ".asm"
    [] name = "long.inc" -> ".inc"
    [] OTHER -> ".txt"

\* name.toLowerCase().endsWith('.mplab.json')
EndsWithMplabJson(name) == name = "app.mplab.json"

Uris == [folder : Folders \cup {NoFolder}, name : FileNames]

\* Language ids an editor document may carry; the first is a member of
\* SUPPORTED_LANGUAGE_IDS, the second is not.
LanguageIds == {"avr-asm", "plaintext"}
SUPPORTED_LANGUAGE_IDS == {"avr-asm", "nasm", "asm", "assembly", "gas"}

Documents == [uri : Uris, languageId : LanguageIds]

FolderKey(folder) == IF folder = "w1" THEN "folder:w1" ELSE "folder:w2"

\* Workspace folders of the workspaces the providers are called in.
QueryFolders == {"w1", "w2"}

ScopeKeys ==
  {INDEX_SCOPE_GLOBAL} \cup {FolderKey(f) : f \in Folders \cup QueryFolders}

VARIABLES
  activated,                 \* activate() has run
  workspaceFolders,          \* vscode.workspace.workspaceFolders
  cachedIndexByScope,        \* scope key -> id of the cached index, 0 = no entry
  indexBuildPromiseByScope,  \* scope key -> id of the in-flight promise, 0 = no entry
  builds,                    \* the builds started so far (build id = position)
  calls,                     \* the getDfpIndex calls made so far
  failedSettled,             \* scope key -> a build failed and settled since the last call
  lastEvent,                 \* the handler that ran last, with its arguments
  track                      \* which history is recorded: "calls" or "events"

VARIABLES
  packFiles,       \* target.files with the text of each file
  buildPc,         \* position of buildDfpIndex: "idle", "scan" or "done"
  fileIdx,         \* index of the next file spec of the loop
  symbols,         \* the symbol map under construction
  symbolList,      \* the distinct-name list under construction
  scannedFiles,    \* the files read so far
  builtIndex,      \* the index returned by the last build
  previousIndex,   \* the index returned by the build before it
  buildCount       \* number of builds completed

buildVars == <<packFiles, buildPc, fileIdx, symbols, symbolList, scannedFiles,
               builtIndex, previousIndex, buildCount>>

cacheVars == <<activated, workspaceFolders, cachedIndexByScope,
               indexBuildPromiseByScope, builds, calls, failedSettled,
               lastEvent, track>>

VARIABLES
  workspaceFiles,  \* the files findFiles yields, each with its text on disk
  openDocuments,   \* vscode.workspace.textDocuments
  packContent,     \* what an index built from the pack files holds
  query,           \* the provider or command call under way, with its arguments
  qPc,             \* where the call is suspended: the await it is at
  qTodo,           \* the uris (or scopes) its loop has still to visit
  qResults,        \* the results it has accumulated
  qAwait,          \* the getDfpIndex result it awaits
  cancelled,       \* token.isCancellationRequested
  qOutcome         \* how the call ended and what it returned

queryVars == <<workspaceFiles, openDocuments, packContent, query, qPc, qTodo,
               qResults, qAwait, cancelled, qOutcome>>

VARIABLES
  args,              \* the arguments of the function call under study
  result,            \* what the call returned
  editorDocs,        \* uri -> the document the editor holds: open, version, text
  localSymbolCache,  \* the Map localSymbolCache: uri -> cached version and data
  localData          \* what the call of getLocalSymbolData just made returned

toolVars == <<args, result, editorDocs, localSymbolCache, localData>>

vars == <<cacheVars, buildVars, queryVars, toolVars>>

isAssemblyFilePath(name) ==
  LET ext == LowerExtname(name)
  IN ext = ".s" \/ ext = ".asm" \/ ext = ".as" \/ ext = ".inc"

isAssemblyUri(uri) == isAssemblyFilePath(uri.name)

isAssemblyDocument(document) ==
  document.languageId \in SUPPORTED_LANGUAGE_IDS \/ isAssemblyUri(document.uri)

isMplabProjectUri(uri) == EndsWithMplabJson(uri.name)

\* The scope key of a uri under a given set of open workspace folders.
getIndexScopeForUri(uri, folders) ==
  IF uri.folder \in folders THEN FolderKey(uri.folder) ELSE INDEX_SCOPE_GLOBAL

getIndexScopeForDocument(document, folders) ==
  getIndexScopeForUri(document.uri, folders)

\* The scopes getDefaultIndexScope can yield: the scope of the active
\* editor's document, else the first workspace folder, else the global one.
getDefaultIndexScope(folders) ==
  {getIndexScopeForUri(u, folders) : u \in Uris}
    \cup (IF folders = {} THEN {INDEX_SCOPE_GLOBAL}
          ELSE {FolderKey(f) : f \in folders})

\* clearIndexCache without its scope test: every entry goes.
clearEveryIndex(map, scope) == [k \in ScopeKeys |-> 0]

\* clearIndexCache(scope) on a scope-keyed map: every entry goes when scope
\* is null, the entry of the scope otherwise.
clearIndexCache(map, scope) ==
  IF scope = NoScope THEN [k \in ScopeKeys |-> 0]
  ELSE [map EXCEPT ![scope] = 0]

\* maybeInvalidateIndexForUri without the project-descriptor test.
maybeInvalidateAssemblyOnly(uri, folders) ==
  IF isAssemblyUri(uri)
  THEN {getIndexScopeForUri(uri, folders)}
  ELSE {}

\* The scopes maybeInvalidateIndexForUri clears for a uri: one or none.
maybeInvalidateIndexForUri(uri, folders) ==
  IF isMplabProjectUri(uri) \/ isAssemblyUri(uri)
  THEN {getIndexScopeForUri(uri, folders)}
  ELSE {}

RECURSIVE ClearEach(_, _)
\* clearIndexCache applied for each scope of a sequence of scopes, in order.
ClearEach(map, scopes) ==
  IF scopes = <<>> THEN map
  ELSE ClearEach(clearIndexCache(map, Head(scopes)), Tail(scopes))

RECURSIVE SetToSeq(_)
SetToSeq(S) ==
  IF S = {} THEN <<>>
  ELSE LET x == CHOOSE y \in S : TRUE IN <<x>> \o SetToSeq(S \ {x})

Settled(b) == b.state \in {"fulfilled", "rejected"}

\* History kept with each build while its result can still be served (until
\* it has settled and its index is out of the cache): "inval" once its scope
\* was invalidated after it started, "save" once a file of its scope was
\* saved after it started.  Kept only when calls are tracked.
MarkBuilds(bs, scopes, isSave) ==
  IF track # "calls" THEN bs
  ELSE [i \in DOMAIN bs |->
          IF bs[i].scope \in scopes
          THEN [bs[i] EXCEPT !.since =
                  IF Settled(bs[i]) THEN "none"
                  ELSE IF isSave \/ @ = "save" THEN "save" ELSE "inval"]
          ELSE bs[i]]

\* The record of the handler that ran last: its kind, the scopes it cleared,
\* the uris and the language id it was given, whether a scope it cleared had
\* a cache entry.  Kept only when events are tracked.
Event(type, scopes, files, languageId) ==
  IF track = "events"
  THEN [type |-> type, scopes |-> scopes, files |-> files,
        languageId |-> languageId,
        hadCache |-> \E k \in scopes : cachedIndexByScope[k] # 0]
  ELSE lastEvent

\* The calls recorded so far with one more; kept only when calls are tracked.
Record(call) == IF track = "calls" THEN calls \cup {call} ELSE calls

NoEvent == [type |-> "init", scopes |-> {}, files |-> <<>>, languageId |-> "",
            hadCache |-> FALSE]

\* getDfpIndex without the clearIndexCache of a forced call.
getDfpIndexKeep(cache, promises, scopeKey, force, newId) ==
  IF cache[scopeKey] # 0
  THEN [cache |-> cache, promises |-> promises, kind |-> "cached",
        index |-> cache[scopeKey], build |-> 0]
  ELSE IF promises[scopeKey] # 0
  THEN [cache |-> cache, promises |-> promises, kind |-> "joined",
        index |-> 0, build |-> promises[scopeKey]]
  ELSE [cache |-> cache, promises |-> [promises EXCEPT ![scopeKey] = newId],
        kind |-> "started", index |-> 0, build |-> newId]

\* getDfpIndex(scope, force) on the two maps; newId is the id a build
\* started by this call gets.  Yields the maps after the call, how the call
\* was served and what it returns: the cached index, or the promise (build
\* id) it awaits.
getDfpIndex(cache, promises, scopeKey, force, newId) ==
  LET c1 == IF force THEN clearIndexCache(cache, scopeKey) ELSE cache
      p1 == IF force THEN clearIndexCache(promises, scopeKey) ELSE promises
  IN IF c1[scopeKey] # 0
     THEN [cache |-> c1, promises |-> p1, kind |-> "cached",
           index |-> c1[scopeKey], build |-> 0]
     ELSE IF p1[scopeKey] # 0
     THEN [cache |-> c1, promises |-> p1, kind |-> "joined",
           index |-> 0, build |-> p1[scopeKey]]
     ELSE [cache |-> c1, promises |-> [p1 EXCEPT ![scopeKey] = newId],
           kind |-> "started", index |-> 0, build |-> newId]

\* .then((index) => { cachedIndexByScope.set(scopeKey, index); return index; })
thenHandler(cache, scopeKey, index) == [cache EXCEPT ![scopeKey] = index]

\* A .catch callback that logs and does not throw: the chained promise is
\* fulfilled with no value.
catchAndSwallow == "swallowed"

\* .catch((error) => { logError(...); throw error; }): the state the chained
\* promise is left in, "caught" when the error is thrown again.
catchHandler == "caught"

\* A .finally callback that leaves the map alone: a mutant.
finallyKeepsEntry(promises, scopeKey) == promises

\* .finally(() => { indexBuildPromiseByScope.delete(scopeKey); })
finallyHandler(promises, scopeKey) == [promises EXCEPT ![scopeKey] = 0]

NewBuild(scopeKey) ==
  [scope |-> scopeKey, state |-> "running", value |-> 0, failed |-> FALSE,
   since |-> "none"]

\* The builds of a scope that have not completed and whose scope has not
\* been invalidated since they started.
JoinableBuilds(scopeKey) ==
  {i \in DOMAIN builds :
     /\ builds[i].scope = scopeKey
     /\ builds[i].state = "running"
     /\ builds[i].since = "none"}

\* A getDfpIndex call: from a provider (the scope of its document), from the
\* rebuild command (force) or from the show-target and lookup commands.
GetIndex(scopeKey, force) ==
  /\ activated
  /\ Cardinality(calls) < MaxCalls
  /\ LET newId == Len(builds) + 1
         r == getDfpIndex(cachedIndexByScope, indexBuildPromiseByScope,
                          scopeKey, force, newId)
         marked == IF force THEN MarkBuilds(builds, {scopeKey}, FALSE)
                   ELSE builds
         served == IF r.kind = "cached" THEN r.index ELSE r.build
     IN /\ r.kind = "started" => newId <= MaxBuilds
        /\ cachedIndexByScope' = r.cache
        /\ indexBuildPromiseByScope' = r.promises
        /\ builds' = IF r.kind = "started"
                     THEN Append(marked, NewBuild(scopeKey)) ELSE marked
        /\ calls' = Record(
             [scope |-> scopeKey, force |-> force, kind |-> r.kind,
              index |-> r.index, build |-> r.build,
              cachedBefore |-> cachedIndexByScope[scopeKey],
              joinable |-> JoinableBuilds(scopeKey),
              servedPreSave |-> IF r.kind = "started" THEN FALSE
                                ELSE builds[served].since = "save",
              afterFail |-> failedSettled[scopeKey]])
        /\ failedSettled' = [failedSettled EXCEPT ![scopeKey] = FALSE]
        /\ lastEvent' = Event(IF force THEN "forceGetIndex" ELSE "getIndex",
                              {scopeKey}, <<>>, "")
  /\ UNCHANGED <<activated, workspaceFolders, track, buildVars, toolVars, queryVars>>

\* activate(): registers the handlers and warms the index of the default
\* scope in the background.
Activate(scopeKey) ==
  /\ ~activated
  /\ scopeKey \in getDefaultIndexScope(workspaceFolders)
  /\ activated' = TRUE
  /\ LET r == getDfpIndex(cachedIndexByScope, indexBuildPromiseByScope,
                          scopeKey, FALSE, Len(builds) + 1)
     IN /\ cachedIndexByScope' = r.cache
        /\ indexBuildPromiseByScope' = r.promises
        /\ builds' = Append(builds, NewBuild(scopeKey))
        /\ calls' = Record(
             [scope |-> scopeKey, force |-> FALSE, kind |-> r.kind,
              index |-> r.index, build |-> r.build, cachedBefore |-> 0,
              joinable |-> {}, servedPreSave |-> FALSE, afterFail |-> FALSE])
  /\ lastEvent' = Event("activate", {scopeKey}, <<>>, "")
  /\ UNCHANGED <<workspaceFolders, failedSettled, track, buildVars, toolVars, queryVars>>

\* buildDfpIndex of build b resolves and the .then callback runs.
BuildThen(b) ==
  /\ b \in DOMAIN builds
  /\ builds[b].state = "running"
  /\ cachedIndexByScope' = thenHandler(cachedIndexByScope, builds[b].scope, b)
  /\ builds' = [builds EXCEPT ![b].state = "thenDone", ![b].value = b]
  /\ lastEvent' = Event("then", {builds[b].scope}, <<>>, "")
  /\ UNCHANGED <<activated, workspaceFolders, indexBuildPromiseByScope, calls,
                 failedSettled, track, buildVars, toolVars, queryVars>>

\* buildDfpIndex of build b throws and the .catch callback runs.
BuildCatch(b) ==
  /\ b \in DOMAIN builds
  /\ builds[b].state = "running"
  /\ builds' = [builds EXCEPT ![b].state = catchHandler, ![b].failed = TRUE]
  /\ lastEvent' = Event("catch", {builds[b].scope}, <<>>, "")
  /\ UNCHANGED <<activated, workspaceFolders, cachedIndexByScope,
                 indexBuildPromiseByScope, calls, failedSettled, track, buildVars, toolVars, queryVars>>

\* The .finally callback of build b runs and the chained promise settles.
BuildFinally(b) ==
  /\ b \in DOMAIN builds
  /\ builds[b].state \notin {"running", "fulfilled", "rejected"}
  /\ indexBuildPromiseByScope' =
       finallyHandler(indexBuildPromiseByScope, builds[b].scope)
  /\ builds' = [builds EXCEPT
                  ![b].state = IF builds[b].state = "caught"
                               THEN "rejected" ELSE "fulfilled",
                  ![b].since = IF cachedIndexByScope[builds[b].scope] = b
                               THEN @ ELSE "none"]
  /\ failedSettled' = IF builds[b].state = "caught" /\ track = "calls"
                      THEN [failedSettled EXCEPT ![builds[b].scope] = TRUE]
                      ELSE failedSettled
  /\ lastEvent' = Event("finally", {builds[b].scope}, <<>>, "")
  /\ UNCHANGED <<activated, workspaceFolders, cachedIndexByScope, calls,
                 track, buildVars, toolVars, queryVars>>

\* What an invalidation handler does to the maps: clearIndexCache for each
\* scope of the sequence (NoScope clears every scope).
Invalidate(type, scopeSeq, files, languageId, isSave) ==
  LET hit == IF \E i \in DOMAIN scopeSeq : scopeSeq[i] = NoScope
             THEN ScopeKeys ELSE {scopeSeq[i] : i \in DOMAIN scopeSeq}
  IN /\ cachedIndexByScope' = ClearEach(cachedIndexByScope, scopeSeq)
     /\ indexBuildPromiseByScope' = ClearEach(indexBuildPromiseByScope, scopeSeq)
     /\ builds' = MarkBuilds(builds, hit, isSave)
     /\ lastEvent' = Event(type, hit, files, languageId)
     /\ UNCHANGED <<activated, workspaceFolders, calls, failedSettled, track,
                    buildVars, toolVars, queryVars>>

\* onDidChangeConfiguration
ConfigurationChange(affectsNavigator) ==
  /\ activated
  /\ Invalidate(IF affectsNavigator THEN "config" ELSE "otherConfig",
                IF affectsNavigator THEN <<NoScope>> ELSE <<>>,
                <<>>, "", FALSE)

\* onDidSaveTextDocument
SaveTextDocument(document) ==
  /\ activated
  /\ Invalidate("save",
                IF isMplabProjectUri(document.uri) \/ isAssemblyDocument(document)
                THEN <<getIndexScopeForDocument(document, workspaceFolders)>>
                ELSE <<>>,
                <<document.uri>>, document.languageId, TRUE)

RECURSIVE InvalidatedScopes(_, _)
\* The scopes the create, delete and rename handlers clear, uri by uri.
InvalidatedScopes(uris, folders) ==
  IF uris = <<>> THEN <<>>
  ELSE SetToSeq(maybeInvalidateIndexForUri(Head(uris), folders))
         \o InvalidatedScopes(Tail(uris), folders)

\* The file lists an event may carry: up to n distinct uris.
UriLists(n) ==
  {SetToSeq(S) : S \in {T \in SUBSET Uris : Cardinality(T) \in 1..n}}

\* onDidCreateFiles
CreateFiles(files) ==
  /\ activated
  /\ Invalidate("create", InvalidatedScopes(files, workspaceFolders),
                files, "", FALSE)

\* onDidDeleteFiles
DeleteFiles(files) ==
  /\ activated
  /\ Invalidate("delete", InvalidatedScopes(files, workspaceFolders),
                files, "", FALSE)

\* onDidRenameFiles: files holds oldUri, newUri of each renamed file in turn.
RenameFiles(files) ==
  /\ activated
  /\ Invalidate("rename", InvalidatedScopes(files, workspaceFolders),
                files, "", FALSE)

\* onDidChangeWorkspaceFolders
ChangeWorkspaceFolders(folders) ==
  /\ activated
  /\ folders # workspaceFolders
  /\ cachedIndexByScope' = clearIndexCache(cachedIndexByScope, NoScope)
  /\ indexBuildPromiseByScope' = clearIndexCache(indexBuildPromiseByScope, NoScope)
  /\ builds' = MarkBuilds(builds, ScopeKeys, FALSE)
  /\ workspaceFolders' = folders
  /\ lastEvent' = Event("folders", ScopeKeys, <<>>, "")
  /\ UNCHANGED <<activated, calls, failedSettled, track, buildVars, toolVars, queryVars>>

\* A rename event carries an old and a new uri for each file.
RenameLists ==
  UNION {{f \in [1..(2 * k) -> Uris] :
            \A i \in 1..k : f[2 * i - 1] # f[2 * i]} :
         k \in 1..(MaxEventFiles \div 2)}

CacheNext ==
  \/ \E k \in ScopeKeys : Activate(k)
  \/ \E k \in getDefaultIndexScope(workspaceFolders), force \in BOOLEAN :
       GetIndex(k, force)
  \/ \E b \in 1..MaxBuilds : BuildThen(b)
  \/ \E b \in 1..MaxBuilds : BuildCatch(b)
  \/ \E b \in 1..MaxBuilds : BuildFinally(b)
  \/ \E a \in BOOLEAN : ConfigurationChange(a)
  \/ \E d \in Documents : SaveTextDocument(d)
  \/ \E fs \in UriLists(MaxEventFiles) : CreateFiles(fs)
  \/ \E fs \in UriLists(MaxEventFiles) : DeleteFiles(fs)
  \/ \E fs \in RenameLists : RenameFiles(fs)
  \/ \E fo \in SUBSET Folders : ChangeWorkspaceFolders(fo)

(***************************************************************************)
(* buildDfpIndex: the scan of the pack files into a pack index.            *)
(***************************************************************************)

\* Symbol names of the pack files.
Names == {"FOO", "BAR_1", "bar", "Baz"}

\* /[A-Z]/.test(candidate)
HasUpperCase(name) == name \in {"FOO", "BAR_1", "Baz"}

\* candidate.includes('_')
HasUnderscore(name) == name = "BAR_1"

\* candidate === candidate.toUpperCase()
IsUpperCase(name) == name \in {"FOO", "BAR_1"}

\* a.localeCompare(b) < 0 on the names, as a rank: letters compare without
\* case first, a shorter name precedes its extensions.
LocaleRank(name) ==
  CASE name = "bar" -> 1
    [] name = "BAR_1" -> 2
    [] name = "Baz" -> 3
    [] OTHER -> 4

localeCompare(a, b) ==
  IF LocaleRank(a) < LocaleRank(b) THEN -1
  ELSE IF LocaleRank(a) > LocaleRank(b) THEN 1 ELSE 0

\* A line of a pack file, by the construct it carries:
\*   "define"  #define NAME ...        "equ"   .equ NAME = value
\*   "enum"    NAME = (value),         "attr"  <... name="NAME" ...>
\*   "other"   none of these
Line(shape, name) == [shape |-> shape, name |-> name]

\* The line texts the pack files are made of, by pattern and line number.
Patterns == {"same", "alternate", "mixed"}

LineAt(pattern, i) ==
  CASE pattern = "same" -> Line("define", "FOO")
    [] pattern = "alternate" ->
         IF i % 2 = 1 THEN Line("define", "FOO") ELSE Line("equ", "BAR_1")
    [] OTHER ->
         CASE i % 5 = 1 -> Line("attr", "BAR_1")
           [] i % 5 = 2 -> Line("attr", "bar")
           [] i % 5 = 3 -> Line("enum", "Baz")
           [] i % 5 = 4 -> Line("attr", "Baz")
           [] OTHER -> Line("other", "")

\* The number of lines a pack file may have.
LineCounts == {0, 1, 2, MaxLines - 2, MaxLines - 1, MaxLines}

\* What readTextIfExists yields for a file: null for a missing file (found
\* is FALSE), else its text as lines; a text of no lines is the empty string.
FileTexts ==
  {[found |-> FALSE, lines |-> <<>>]}
    \cup {[found |-> TRUE, lines |-> [i \in 1..n |-> LineAt(p, i)]] :
            p \in Patterns, n \in LineCounts}

FileKinds == {"header", "atdf"}

\* The path of the file spec at each position of target.files.
FilePaths == <<"include/avr/ioavr.h", "atdf/AVR.atdf", "avrasm/inc/avrdef.inc">>

\* The file specs resolveIndexFiles may yield, with the text of each file.
PackFileLists ==
  UNION {[1..k -> [kind : FileKinds, text : FileTexts]] : k \in 1..MaxPackFiles}

\* parseSymbolsFromLine(line, kind)
parseSymbolsFromLine(line, kind) ==
  (IF line.shape = "define"
   THEN <<[symbol |-> line.name, kind |-> "macro"]>> ELSE <<>>)
  \o (IF line.shape = "equ"
      THEN <<[symbol |-> line.name, kind |-> "equ"]>> ELSE <<>>)
  \o (IF line.shape = "enum"
      THEN <<[symbol |-> line.name, kind |-> "enum"]>> ELSE <<>>)
  \o (IF /\ kind = "atdf"
         /\ line.shape = "attr"
         /\ HasUpperCase(line.name)
         /\ (HasUnderscore(line.name) \/ IsUpperCase(line.name))
      THEN <<[symbol |-> line.name, kind |-> "atdf"]>> ELSE <<>>)

\* A symbol map without names: no name has entries.
EmptySymbolMap == [n \in Names |-> <<>>]

\* The map a build starts from, as a build without "new Map()" would: the
\* map of the build before it.
KeptSymbolMap == symbols

\* const symbols = new Map() in buildDfpIndex
NewSymbolMap == EmptySymbolMap

\* addSymbol with the cap tested after the push: one entry too many.
addSymbolLate(map, list, symbol, entry) ==
  IF symbol = "" THEN [map |-> map, list |-> list]
  ELSE LET entries == map[symbol]
           list1 == IF entries = <<>> THEN Append(list, symbol) ELSE list
       IN IF Len(entries) <= MaxOccurrences
          THEN [map |-> [map EXCEPT ![symbol] = Append(entries, entry)],
                list |-> list1]
          ELSE [map |-> map, list |-> list1]

\* addSymbol(map, symbolList, symbol, entry): the map and the list afterwards.
\* A name without entries in the map is a name the map does not hold.
addSymbol(map, list, symbol, entry) ==
  IF symbol = "" THEN [map |-> map, list |-> list]
  ELSE LET entries == map[symbol]
           list1 == IF entries = <<>> THEN Append(list, symbol) ELSE list
       IN IF Len(entries) < MaxOccurrences
          THEN [map |-> [map EXCEPT ![symbol] = Append(entries, entry)],
                list |-> list1]
          ELSE [map |-> map, list |-> list1]

RECURSIVE AddItems(_, _, _, _, _)
\* The inner loop of buildDfpIndex: addSymbol for each item parsed from line
\* number i of a file.
AddItems(acc, items, file, i, line) ==
  IF items = <<>> THEN acc
  ELSE AddItems(addSymbol(acc.map, acc.list, Head(items).symbol,
                          [file |-> file.filePath, line |-> i, text |-> line,
                           kind |-> Head(items).kind]),
                Tail(items), file, i, line)

RECURSIVE ScanLines(_, _, _)
\* The line loop of buildDfpIndex over the lines i.. of a file.
ScanLines(acc, file, i) ==
  IF i > Len(file.lines) THEN acc
  ELSE ScanLines(AddItems(acc, parseSymbolsFromLine(file.lines[i], file.kind),
                          file, i, file.lines[i]),
                 file, i + 1)

RECURSIVE InsertSorted(_, _)
InsertSorted(sorted, name) ==
  IF sorted = <<>> THEN <<name>>
  ELSE IF localeCompare(name, Head(sorted)) < 0 THEN <<name>> \o sorted
  ELSE <<Head(sorted)>> \o InsertSorted(Tail(sorted), name)

\* A build that returns the names in the order of the scan.
SortNamesUnsorted(list) == list

RECURSIVE SortNames(_)
\* symbolList.sort((a, b) => a.localeCompare(b))
SortNames(list) ==
  IF list = <<>> THEN <<>>
  ELSE InsertSorted(SortNames(SubSeq(list, 1, Len(list) - 1)), list[Len(list)])

NoIndex == [symbols |-> EmptySymbolMap, symbolList |-> <<>>,
            scannedFiles |-> <<"none">>]

\* buildDfpIndex up to its file loop: the target is resolved, the map and
\* the lists are created.
StartBuild ==
  /\ buildPc \in {"idle", "done"}
  /\ buildCount < MaxRebuilds
  /\ buildPc' = "scan"
  /\ fileIdx' = 1
  /\ symbols' = NewSymbolMap
  /\ symbolList' = <<>>
  /\ scannedFiles' = <<>>
  /\ UNCHANGED <<packFiles, builtIndex, previousIndex, buildCount, cacheVars, queryVars, toolVars>>

\* One round of the file loop: a file that is missing or empty is skipped.
ReadFile ==
  /\ buildPc = "scan"
  /\ fileIdx <= Len(packFiles)
  /\ LET spec == packFiles[fileIdx]
         file == [filePath |-> FilePaths[fileIdx], kind |-> spec.kind,
                  lines |-> spec.text.lines]
         acc == ScanLines([map |-> symbols, list |-> symbolList], file, 1)
     IN IF ~spec.text.found \/ spec.text.lines = <<>>
        THEN UNCHANGED <<symbols, symbolList, scannedFiles>>
        ELSE /\ scannedFiles' = Append(scannedFiles, file.filePath)
             /\ symbols' = acc.map
             /\ symbolList' = acc.list
  /\ fileIdx' = fileIdx + 1
  /\ UNCHANGED <<packFiles, buildPc, builtIndex, previousIndex, buildCount,
                 cacheVars, queryVars, toolVars>>

\* The end of buildDfpIndex: the name list is sorted and the index returned.
FinishBuild ==
  /\ buildPc = "scan"
  /\ fileIdx > Len(packFiles)
  /\ symbolList' = SortNames(symbolList)
  /\ builtIndex' = [symbols |-> symbols, symbolList |-> symbolList',
                    scannedFiles |-> scannedFiles]
  /\ previousIndex' = builtIndex
  /\ buildCount' = buildCount + 1
  /\ buildPc' = "done"
  /\ UNCHANGED <<packFiles, fileIdx, symbols, scannedFiles, cacheVars, queryVars, toolVars>>

BuildNext == StartBuild \/ ReadFile \/ FinishBuild

(***************************************************************************)
(* Assembly text: a text is a sequence of lines, a line and a symbol name a *)
(* sequence of characters.  Lines and columns count from 0 as in the code.  *)
(***************************************************************************)

UpperCaseLetters ==
  <<"A", "B", "C", "D", "E", "F", "G", "H", "I", "J", "K", "L", "M", "N",
    "O", "P", "Q", "R", "S", "T", "U", "V", "W", "X", "Y", "Z">>

LowerCaseLetters ==
  <<"a", "b", "c", "d", "e", "f", "g", "h", "i", "j", "k", "l", "m", "n",
    "o", "p", "q", "r", "s", "t", "u", "v", "w", "x", "y", "z">>

Digits == {"0", "1", "2", "3", "4", "5", "6", "7", "8", "9"}

Range(seq) == {seq[i] : i \in DOMAIN seq}

\* The first character of WORD_REGEX and of the names of the LOCAL_ regexes:
\* [A-Za-z_.$]
IdentStartChars ==
  Range(UpperCaseLetters) \cup Range(LowerCaseLetters) \cup {"_", ".", "$"}

IsIdentStart(c) == c \in IdentStartChars

\* IDENTIFIER_CHAR_CLASS: A-Za-z0-9_.$
IdentChars == IdentStartChars \cup Digits

IsIdentChar(c) == c \in IdentChars

\* \s
IsSpace(c) == c \in {" ", "\t"}

\* The lower-case letter of each upper-case letter.
LowerCaseOf ==
  [c \in Range(UpperCaseLetters) |->
     LowerCaseLetters[CHOOSE i \in DOMAIN UpperCaseLetters :
                        UpperCaseLetters[i] = c]]

LowerChar(c) == IF c \in DOMAIN LowerCaseOf THEN LowerCaseOf[c] ELSE c

\* String.prototype.toLowerCase
toLowerCase(s) == [i \in DOMAIN s |-> LowerChar(s[i])]

\* s.startsWith(p)
startsWith(s, p) == Len(p) <= Len(s) /\ SubSeq(s, 1, Len(p)) = p

\* s.indexOf(p): the column of the first occurrence of p in s, -1 without one.
indexOf(s, p) ==
  LET at == {c \in 0..(Len(s) - Len(p)) : SubSeq(s, c + 1, c + Len(p)) = p}
  IN IF at = {} THEN -1 ELSE CHOOSE c \in at : \A d \in at : c <= d

\* s.includes(p)
includes(s, p) == indexOf(s, p) >= 0

\* The members of a set of numbers in ascending order.
Ascending(S) ==
  IF S = {} THEN <<>>
  ELSE SelectSeq([n \in 1..((CHOOSE x \in S : \A y \in S : y <= x) + 1) |-> n - 1],
                 LAMBDA n : n \in S)

\* The position (from 1) of the first character at or after position i that
\* is not white space, Len(line) + 1 when there is none.
SkipSpace(line, i) ==
  LET rest == {j \in i..Len(line) : ~IsSpace(line[j])}
  IN IF rest = {} THEN Len(line) + 1
     ELSE CHOOSE j \in rest : \A k \in rest : j <= k

\* The position of the last character of the longest run of identifier
\* characters that starts at position i.
IdentEnd(line, i) ==
  LET stops == {j \in i..Len(line) : ~IsIdentChar(line[j])}
  IN IF stops = {} THEN Len(line)
     ELSE (CHOOSE j \in stops : \A k \in stops : j <= k) - 1

NoMatch == <<>>

\* LOCAL_LABEL_REGEX.exec(line): match[1], or NoMatch.
\*   /^\s*([A-Za-z_.$][A-Za-z0-9_.$]*)\s*:/
MatchLabel(line) ==
  LET s == SkipSpace(line, 1)
  IN IF s > Len(line) \/ ~IsIdentStart(line[s]) THEN NoMatch
     ELSE LET e == IdentEnd(line, s)
              t == SkipSpace(line, e + 1)
          IN IF t <= Len(line) /\ line[t] = ":"
             THEN SubSeq(line, s, e) ELSE NoMatch

\* LOCAL_EQU_REGEX.exec(line) and LOCAL_SET_REGEX.exec(line): match[1], or
\* NoMatch; directive is ".equ" or ".set", matched without case.
\*   /^\s*\.equ\s+([A-Za-z_.$][A-Za-z0-9_.$]*)\s*(?:=|,)\s*(.+)$/i
MatchDirective(line, directive) ==
  LET s == SkipSpace(line, 1)
      a == s + Len(directive)
  IN IF \/ a > Len(line)
        \/ toLowerCase(SubSeq(line, s, a - 1)) # directive
        \/ ~IsSpace(line[a])
     THEN NoMatch
     ELSE LET n == SkipSpace(line, a)
          IN IF n > Len(line) \/ ~IsIdentStart(line[n]) THEN NoMatch
             ELSE LET e == IdentEnd(line, n)
                      t == SkipSpace(line, e + 1)
                  IN IF /\ t < Len(line)
                        /\ line[t] \in {"=", ","}
                     THEN SubSeq(line, n, e) ELSE NoMatch

DotEqu == <<".", "e", "q", "u">>
DotSet == <<".", "s", "e", "t">>

\* The first of the three regular expressions that matched decides the
\* kind: label, then .equ, then .set; NoMatch when none matched.
FirstMatch(label, equ, set) ==
  IF label # NoMatch THEN [symbol |-> label, kind |-> "label"]
  ELSE IF equ # NoMatch THEN [symbol |-> equ, kind |-> "equ"]
  ELSE IF set # NoMatch THEN [symbol |-> set, kind |-> "set"]
  ELSE [symbol |-> NoMatch, kind |-> "none"]

\* The definition a line carries, as parseLocalSymbolsFromLines tests it.
LocalDefinition(line) ==
  FirstMatch(MatchLabel(line), MatchDirective(line, DotEqu),
             MatchDirective(line, DotSet))

Max(a, b) == IF a >= b THEN a ELSE b

\* The entry parseLocalSymbolsFromLines builds for the definition d found on
\* line i (from 1) of the text.
LocalEntry(line, i, d) ==
  [symbol |-> d.symbol, kind |-> d.kind, line |-> i - 1,
   column |-> Max(0, indexOf(line, d.symbol))]

\* The line carried a definition.
IsDefinition(entry) == entry.symbol # NoMatch

\* One entry per defining line, in line order.
DefiningEntries(lines) ==
  SelectSeq([i \in DOMAIN lines |->
               LocalEntry(lines[i], i, LocalDefinition(lines[i]))],
            IsDefinition)

\* symbols.set(symbol, entry) for every entry in turn, as the values of the
\* Map in iteration order: a name keeps the place of its first definition
\* and the entry of its last.
MapValues(entries) ==
  LET firsts == Ascending({k \in DOMAIN entries :
                   \A j \in 1..(k - 1) : entries[j].symbol # entries[k].symbol})
      last(k) == CHOOSE j \in DOMAIN entries :
                   /\ entries[j].symbol = entries[k].symbol
                   /\ \A m \in DOMAIN entries :
                        entries[m].symbol = entries[k].symbol => m <= j
  IN [m \in DOMAIN firsts |-> entries[last(firsts[m])]]

\* The result of parseLocalSymbolsFromLines for its list of entries.
ParsedSymbols(entries) == [symbols |-> MapValues(entries), entries |-> entries]

\* parseLocalSymbolsFromLines(lines)
parseLocalSymbolsFromLines(lines) == ParsedSymbols(DefiningEntries(lines))

\* getLocalSymbols(document)
getLocalSymbols(document) == parseLocalSymbolsFromLines(document.lines).symbols

NoEntry == [symbol |-> NoMatch, kind |-> "none", line |-> -1, column |-> -1]

\* map.get(symbol) on the values of a Map of local symbols.
MapGet(map, symbol) ==
  IF \E i \in DOMAIN map : map[i].symbol = symbol
  THEN map[CHOOSE i \in DOMAIN map : map[i].symbol = symbol]
  ELSE NoEntry

\* The regular expression of findSymbolMatchesInText matches symbol at
\* column c of a line: a whole token, with no identifier character before
\* or after it.
TokenAt(line, c, symbol) ==
  /\ c + Len(symbol) <= Len(line)
  /\ SubSeq(line, c + 1, c + Len(symbol)) = symbol
  /\ c = 0 \/ ~IsIdentChar(line[c])
  /\ c + Len(symbol) = Len(line) \/ ~IsIdentChar(line[c + Len(symbol) + 1])

\* One more than the length of the longest line.
LineWidth(lines) ==
  CHOOSE w \in {Len(lines[i]) + 1 : i \in DOMAIN lines} :
    \A i \in DOMAIN lines : Len(lines[i]) < w

\* The places of a text of so many lines, in line order, then column order.
Places(count, width) ==
  [p \in 1..(count * width) |->
     [line |-> (p - 1) \div width, column |-> (p - 1) % width]]

\* The match objects of findSymbolMatchesInText for the places of matches.
MatchesAt(lines, places) ==
  [k \in DOMAIN places |->
     [line |-> places[k].line, column |-> places[k].column,
      lineText |-> lines[places[k].line + 1]]]

\* findSymbolMatchesInText(text, symbol): the matches in line order, then
\* column order.  The empty text has no lines.
findSymbolMatchesInText(lines, symbol) ==
  IF lines = <<>> \/ symbol = <<>> THEN <<>>
  ELSE MatchesAt(lines,
         SelectSeq(Places(Len(lines), LineWidth(lines)),
                   LAMBDA place :
                     TokenAt(lines[place.line + 1], place.column, symbol)))

\* isDefinitionOccurrence(lineText, symbol, column)
isDefinitionOccurrence(lineText, symbol, column) ==
  \E m \in {MatchLabel(lineText), MatchDirective(lineText, DotEqu),
            MatchDirective(lineText, DotSet)} :
    m = symbol /\ indexOf(lineText, m) = column

\* startsWithIgnoreCase(value, prefix)
startsWithIgnoreCase(value, prefix) ==
  prefix = <<>> \/ startsWith(toLowerCase(value), toLowerCase(prefix))

\* completionSeenKey(value)
completionSeenKey(value) == toLowerCase(value)

\* AVR_INSTRUCTION_MNEMONICS, in declaration order.
AVR_INSTRUCTION_MNEMONICS ==
  <<
   <<"a", "d", "c">>, <<"a", "d", "d">>, <<"a", "d", "i", "w">>,
   <<"a", "n", "d">>, <<"a", "n", "d", "i">>, <<"a", "s", "r">>,
   <<"b", "c", "l", "r">>, <<"b", "l", "d">>, <<"b", "r", "b", "c">>,
   <<"b", "r", "b", "s">>, <<"b", "r", "c", "c">>, <<"b", "r", "c", "s">>,
   <<"b", "r", "e", "a", "k">>, <<"b", "r", "e", "q">>,
   <<"b", "r", "g", "e">>, <<"b", "r", "h", "c">>, <<"b", "r", "h", "s">>,
   <<"b", "r", "i", "d">>, <<"b", "r", "i", "e">>, <<"b", "r", "l", "o">>,
   <<"b", "r", "l", "t">>, <<"b", "r", "m", "i">>, <<"b", "r", "n", "e">>,
   <<"b", "r", "p", "l">>, <<"b", "r", "s", "h">>, <<"b", "r", "t", "c">>,
   <<"b", "r", "t", "s">>, <<"b", "r", "v", "c">>, <<"b", "r", "v", "s">>,
   <<"b", "s", "e", "t">>, <<"b", "s", "t">>, <<"c", "a", "l", "l">>,
   <<"c", "b", "i">>, <<"c", "b", "r">>, <<"c", "l", "c">>,
   <<"c", "l", "h">>, <<"c", "l", "i">>, <<"c", "l", "n">>,
   <<"c", "l", "r">>, <<"c", "l", "s">>, <<"c", "l", "t">>,
   <<"c", "l", "v">>, <<"c", "l", "z">>, <<"c", "o", "m">>, <<"c", "p">>,
   <<"c", "p", "c">>, <<"c", "p", "i">>, <<"c", "p", "s", "e">>,
   <<"d", "e", "c">>, <<"d", "e", "s">>, <<"e", "i", "c", "a", "l", "l">>,
   <<"e", "i", "j", "m", "p">>, <<"e", "l", "p", "m">>, <<"e", "o", "r">>,
   <<"f", "m", "u", "l">>, <<"f", "m", "u", "l", "s">>,
   <<"f", "m", "u", "l", "s", "u">>, <<"i", "c", "a", "l", "l">>,
   <<"i", "j", "m", "p">>, <<"i", "n">>, <<"i", "n", "c">>,
   <<"j", "m", "p">>, <<"l", "a", "c">>, <<"l", "a", "s">>,
   <<"l", "a", "t">>, <<"l", "d">>, <<"l", "d", "d">>, <<"l", "d", "i">>,
   <<"l", "d", "s">>, <<"l", "p", "m">>, <<"l", "s", "l">>,
   <<"l", "s", "r">>, <<"m", "o", "v">>, <<"m", "o", "v", "w">>,
   <<"m", "u", "l">>, <<"m", "u", "l", "s">>, <<"m", "u", "l", "s", "u">>,
   <<"n", "e", "g">>, <<"n", "o", "p">>, <<"o", "r">>, <<"o", "r", "i">>,
   <<"o", "u", "t">>, <<"p", "o", "p">>, <<"p", "u", "s", "h">>,
   <<"r", "c", "a", "l", "l">>, <<"r", "e", "t">>, <<"r", "e", "t", "i">>,
   <<"r", "j", "m", "p">>, <<"r", "o", "l">>, <<"r", "o", "r">>,
   <<"s", "b", "c">>, <<"s", "b", "c", "i">>, <<"s", "b", "i">>,
   <<"s", "b", "i", "c">>, <<"s", "b", "i", "s">>, <<"s", "b", "i", "w">>,
   <<"s", "b", "r">>, <<"s", "b", "r", "c">>, <<"s", "b", "r", "s">>,
   <<"s", "e", "c">>, <<"s", "e", "h">>, <<"s", "e", "i">>,
   <<"s", "e", "n">>, <<"s", "e", "r">>, <<"s", "e", "s">>,
   <<"s", "e", "t">>, <<"s", "e", "v">>, <<"s", "e", "z">>,
   <<"s", "l", "e", "e", "p">>, <<"s", "p", "m">>, <<"s", "t">>,
   <<"s", "t", "d">>, <<"s", "t", "s">>, <<"s", "u", "b">>,
   <<"s", "u", "b", "i">>, <<"s", "w", "a", "p">>, <<"t", "s", "t">>,
   <<"w", "d", "r">>, <<"x", "c", "h">>
  >>

\* AVR_REGISTER_NAMES: r0 .. r31, then the pointer registers.
AVR_REGISTER_NAMES ==
  <<
   <<"r", "0">>, <<"r", "1">>, <<"r", "2">>, <<"r", "3">>, <<"r", "4">>,
   <<"r", "5">>, <<"r", "6">>, <<"r", "7">>, <<"r", "8">>, <<"r", "9">>,
   <<"r", "1", "0">>, <<"r", "1", "1">>, <<"r", "1", "2">>,
   <<"r", "1", "3">>, <<"r", "1", "4">>, <<"r", "1", "5">>,
   <<"r", "1", "6">>, <<"r", "1", "7">>, <<"r", "1", "8">>,
   <<"r", "1", "9">>, <<"r", "2", "0">>, <<"r", "2", "1">>,
   <<"r", "2", "2">>, <<"r", "2", "3">>, <<"r", "2", "4">>,
   <<"r", "2", "5">>, <<"r", "2", "6">>, <<"r", "2", "7">>,
   <<"r", "2", "8">>, <<"r", "2", "9">>, <<"r", "3", "0">>,
   <<"r", "3", "1">>, <<"x">>, <<"y">>, <<"z">>, <<"x", "l">>, <<"x", "h">>,
   <<"y", "l">>, <<"y", "h">>, <<"z", "l">>, <<"z", "h">>
  >>

(***************************************************************************)
(* The query providers and the commands that use the pack index.           *)
(***************************************************************************)

\* Lines of assembly text.
FooLabelLine == <<"F", "O", "O", ":">>
JmpFooLine == <<" ", "j", "m", "p", " ", "F", "O", "O">>
EquELine == <<".", "e", "q", "u", " ", "e", " ", "=", " ", "1">>
LowerFooLabelLine == <<"f", "o", "o", ":">>
XLabelLine == <<"x", ":">>
LedPinLine == <<"L", "E", "D", "_", "P", "I", "N", ":">>
LdiELine == <<" ", "l", "d", "i", " ", "r", "1", "6", ",", " ", "e">>
FooLoopLine == <<"F", "O", "O", ":", " ", "r", "j", "m", "p", " ", "F", "O", "O">>

\* The text of a file of MaxTextLines lines that each define and use FOO.
LongText == [i \in 1..MaxTextLines |-> FooLoopLine]

MainText == <<FooLabelLine, JmpFooLine, EquELine, LowerFooLabelLine, XLabelLine>>
LibText == <<LedPinLine, LdiELine, FooLoopLine>>

MainUri == [folder |-> "w1", name |-> "main.S"]
LibUri == [folder |-> "w2", name |-> "lib.asm"]
LongUri == [folder |-> "w1", name |-> "long.inc"]
GoneUri == [folder |-> "w1", name |-> "gone.s"]

MainDocument == [uri |-> MainUri, languageId |-> "avr-asm", lines |-> MainText]
LibDocument == [uri |-> LibUri, languageId |-> "avr-asm", lines |-> LibText]

\* What the workspace may hold: the files findFiles yields, in its order,
\* each with its text on disk (no lines: the file is empty or cannot be
\* read), and the open text documents.
Workspaces ==
  {[files |-> <<>>, open |-> <<MainDocument>>],
   [files |-> <<[uri |-> MainUri, lines |-> <<JmpFooLine>>],
                [uri |-> GoneUri, lines |-> <<>>],
                [uri |-> LibUri, lines |-> LibText]>>,
    open |-> <<MainDocument>>],
   [files |-> <<[uri |-> LongUri, lines |-> LongText],
                [uri |-> LibUri, lines |-> LibText]>>,
    open |-> <<LibDocument>>]}

\* The symbols under the cursor: names as extractSymbolAtPosition yields them.
Words == {<<"F", "O", "O">>, <<"e">>, <<"l", "d", "i">>}

\* The word range under the cursor: NoMatch when getWordRangeAtPosition finds
\* no word, else the text of the range.
WordsAtPosition == Words \cup {NoMatch}

\* The partial identifiers completion may be asked for.
Prefixes == {NoMatch, <<"f">>, <<"x">>}

\* The queries of a workspace symbol search, as typed.
SymbolQueries == {NoMatch, <<" ">>, <<"f", "o">>, <<"E">>}

\* A hit of the pack index: an occurrence of a name in a pack file.
Hit(file, line, text, kind) ==
  [file |-> file, line |-> line, text |-> text, kind |-> kind]

DefineFooLine == <<"#", "d", "e", "f", "i", "n", "e", " ", "F", "O", "O", " ", "1">>
DefineLowerFooLine == <<"#", "d", "e", "f", "i", "n", "e", " ", "f", "o", "o", " ", "F", "O", "O">>
DefineLedLine == <<"#", "d", "e", "f", "i", "n", "e", " ", "L", "E", "D", "_", "R", "E", "G", " ", "2">>

\* The index of a target without pack files.
NoPackContent == [symbolList |-> <<>>, hits |-> <<>>, scannedFiles |-> <<>>]

\* The indexes buildDfpIndex may return, as far as the providers read them:
\* the sorted name list, the hits of each name and the scanned files.  The first is the index
\* of a target without pack files; in the last a name has reached the cap of
\* addSymbol.
PackContents ==
  {NoPackContent,
   [symbolList |-> <<<<"f", "o", "o">>, <<"F", "O", "O">>, <<"L", "E", "D", "_", "R", "E", "G">>>>,
    hits |-> <<
      <<Hit("include/avr/ioavr.h", 2, DefineLowerFooLine, "macro")>>,
      <<Hit("include/avr/ioavr.h", 1, DefineFooLine, "macro"),
        Hit("include/avr/ioavr.h", 2, DefineLowerFooLine, "macro")>>,
      <<Hit("include/avr/ioavr.h", 3, DefineLedLine, "macro")>> >>,
    scannedFiles |-> <<"include/avr/ioavr.h">>],
   [symbolList |-> <<<<"F", "O", "O">>>>,
    hits |-> <<[i \in 1..MaxOccurrences |->
                  Hit("include/avr/ioavr.h", i, DefineFooLine, "macro")]>>,
    scannedFiles |-> <<"include/avr/ioavr.h">>]}

\* index.symbols.get(symbol) || []
IndexHits(index, symbol) ==
  IF \E i \in DOMAIN index.symbolList : index.symbolList[i] = symbol
  THEN index.hits[CHOOSE i \in DOMAIN index.symbolList :
                    index.symbolList[i] = symbol]
  ELSE <<>>

\* vscode.Uri.file(path)
UriFile(path) == [folder |-> NoFolder, name |-> path]

\* new vscode.Location(uri, new vscode.Position(line, column))
Location(uri, line, column) == [uri |-> uri, line |-> line, column |-> column]

\* makeLocation(uri, lineNumber1Based)
makeLocation(uri, lineNumber1Based) ==
  Location(uri, Max(0, lineNumber1Based - 1), 0)

\* A configured number: what Number(getConfig().get(key, default)) yields.
\* A value that is not a number yields NaN, which is not finite.
ConfigNumber(value) == [finite |-> TRUE, value |-> value]
NotANumber == [finite |-> FALSE, value |-> 0]

\* clampConfigNumber(key, defaultValue, minValue, maxValue), on the
\* configured number.  Math.trunc leaves a whole number as it is.
clampConfigNumber(configured, defaultValue, minValue, maxValue) ==
  IF ~configured.finite THEN defaultValue
  ELSE IF configured.value < minValue THEN minValue
  ELSE IF configured.value > maxValue THEN maxValue
  ELSE configured.value

\* length >= max, for a max that may be NaN: a comparison with NaN is false.
ReachedMax(length, max) == max.finite /\ length >= max.value

\* getInstructionHoverInfo(symbol) is not null
HasInstructionInfo(symbol) ==
  symbol # NoMatch /\ toLowerCase(symbol) \in Range(AVR_INSTRUCTION_MNEMONICS)

NoQuery == [kind |-> "none"]
NoAwait == [kind |-> "none", index |-> 0, build |-> 0]
NoOutcome == [status |-> "pending", shape |-> "none", value |-> <<>>]

\* The call getDfpIndex(scope, force) of a provider or a command, up to the
\* await: the maps afterwards, the build it may start, and what is awaited.
CallGetDfpIndex(scopeKey, force) ==
  LET newId == Len(builds) + 1
      r == getDfpIndex(cachedIndexByScope, indexBuildPromiseByScope,
                       scopeKey, force, newId)
      marked == IF force THEN MarkBuilds(builds, {scopeKey}, FALSE)
                ELSE builds
  IN /\ r.kind = "started" => newId <= MaxBuilds
     /\ cachedIndexByScope' = r.cache
     /\ indexBuildPromiseByScope' = r.promises
     /\ builds' = IF r.kind = "started"
                  THEN Append(marked, NewBuild(scopeKey)) ELSE marked
     /\ failedSettled' = [failedSettled EXCEPT ![scopeKey] = FALSE]
     /\ qAwait' = [kind |-> r.kind, index |-> r.index, build |-> r.build]
     /\ UNCHANGED <<activated, workspaceFolders, calls, lastEvent, track>>

\* The awaited promise has settled: a cached index is there at once, a build
\* promise once its .finally has run.
AwaitSettled ==
  \/ qAwait.kind = "cached"
  \/ qAwait.kind \in {"joined", "started"} /\ Settled(builds[qAwait.build])

\* The awaited promise is rejected: the await throws.
AwaitRejected ==
  qAwait.kind \in {"joined", "started"}
    /\ builds[qAwait.build].state = "rejected"

\* A call begins: the model follows one call of a provider or a command from
\* its start to its end; token is the state of its cancellation token.
Begin(q, token) ==
  /\ activated
  /\ qPc = "idle"
  /\ query' = q
  /\ cancelled' = token
  /\ UNCHANGED <<workspaceFiles, openDocuments, packContent, buildVars, toolVars>>

\* The call returns (status "returned") or ends in the failure it did not
\* catch (status "rejected").  shape tells what is returned: "none" for null,
\* "one" for a single location, "list" for an array, "hover" for a hover,
\* or the message a command shows; value holds the items.
End(status, shape, value) ==
  /\ qPc' = "done"
  /\ qOutcome' = [status |-> status, shape |-> shape, value |-> value]
  /\ qTodo' = <<>>
  /\ qResults' = <<>>

\* The call is suspended at the await pc, with todo left to visit and
\* results accumulated.
Suspend(pc, todo, results) ==
  /\ qPc' = pc
  /\ qTodo' = todo
  /\ qResults' = results
  /\ qOutcome' = NoOutcome

NoCacheChange ==
  /\ qAwait' = NoAwait
  /\ UNCHANGED cacheVars

\* The call resumes after the await of getDfpIndex.
ResumeIndex(kind) ==
  /\ query.kind = kind
  /\ qPc = "index"
  /\ AwaitSettled
  /\ qAwait' = NoAwait
  /\ UNCHANGED <<cacheVars, buildVars, toolVars, workspaceFiles, openDocuments,
                 packContent, query, cancelled>>

\* provideHover without its test of the symbol: a mutant that asks for the
\* index whatever is at the position.
StartHoverWithoutSymbolTest(document, word, token) ==
  /\ Begin([kind |-> "hover", document |-> document, word |-> word], token)
  /\ IF token
     THEN End("returned", "none", <<>>) /\ NoCacheChange
     ELSE /\ CallGetDfpIndex(
               getIndexScopeForDocument(document, workspaceFolders), FALSE)
          /\ Suspend("index", <<>>, <<>>)

\* provideHover up to its await.
StartHover(document, word, token) ==
  /\ Begin([kind |-> "hover", document |-> document, word |-> word], token)
  /\ IF token \/ word = NoMatch
     THEN End("returned", "none", <<>>) /\ NoCacheChange
     ELSE /\ CallGetDfpIndex(
               getIndexScopeForDocument(document, workspaceFolders), FALSE)
          /\ Suspend("index", <<>>, <<>>)

\* provideHover after its await: what the hover shows.
ResumeHover ==
  /\ ResumeIndex("hover")
  /\ \E instruction \in {HasInstructionInfo(query.word)},
        local \in {MapGet(getLocalSymbols(query.document), query.word)},
        hits \in {IndexHits(packContent, query.word)} :
        IF AwaitRejected THEN End("rejected", "none", <<>>)
        ELSE IF cancelled THEN End("returned", "none", <<>>)
        ELSE IF ~instruction /\ local = NoEntry /\ hits = <<>>
        THEN End("returned", "none", <<>>)
        ELSE End("returned", "hover",
                 <<[instruction |-> instruction, local |-> local,
                    hits |-> Len(hits)]>>)

\* The local definition location of provideDefinition, if there is one.
EntryLocations(uri, local) ==
  IF local = NoEntry THEN <<>> ELSE <<Location(uri, local.line, 0)>>

\* The locations of provideDefinition before its await.
LocalLocations(document, symbol) ==
  EntryLocations(document.uri, MapGet(getLocalSymbols(document), symbol))

\* provideDefinition up to its await.
StartDefinition(document, word, token) ==
  /\ Begin([kind |-> "definition", document |-> document, word |-> word],
           token)
  /\ IF token \/ word = NoMatch
     THEN End("returned", "none", <<>>) /\ NoCacheChange
     ELSE /\ CallGetDfpIndex(
               getIndexScopeForDocument(document, workspaceFolders), FALSE)
          /\ Suspend("index", <<>>, LocalLocations(document, word))

\* Array.prototype.slice(start, end), for 0 <= start <= end
slice(seq, start, end) ==
  SubSeq(seq, start + 1, IF end <= Len(seq) THEN end ELSE Len(seq))

\* The locations provideDefinition pushes for the hits of the index, pack
\* locations first: a mutant of the push order.
DefinitionLocationsPackFirst(locations, hits) ==
  [i \in 1..Len(slice(hits, 0, 20)) |->
     makeLocation(UriFile(hits[i].file), hits[i].line)] \o locations

\* The locations of provideDefinition after the hits of the index are
\* pushed: hits.slice(0, 20).
DefinitionLocations(locations, hits) ==
  locations \o [i \in 1..Len(slice(hits, 0, 20)) |->
                  makeLocation(UriFile(hits[i].file), hits[i].line)]

\* provideDefinition after its await: null, one location or the list.
ResumeDefinition ==
  /\ ResumeIndex("definition")
  /\ \E locations \in {DefinitionLocations(
                           qResults, IndexHits(packContent, query.word))} :
        IF AwaitRejected THEN End("rejected", "none", <<>>)
        ELSE IF cancelled THEN End("returned", "none", <<>>)
        ELSE IF Len(locations) = 0 THEN End("returned", "none", <<>>)
        ELSE IF Len(locations) = 1 THEN End("returned", "one", locations)
        ELSE End("returned", "list", locations)

\* rebuildIndexCommand and runShowActiveTargetCommand up to their await; the
\* rebuild forces a new build.
StartCommand(kind, scopeKey) ==
  /\ Begin([kind |-> kind], FALSE)
  /\ scopeKey \in getDefaultIndexScope(workspaceFolders)
  /\ CallGetDfpIndex(scopeKey, kind = "rebuild")
  /\ Suspend("index", <<>>, <<>>)

\* The command after its await: a failure is caught and shown as an error
\* message, an index is reported.
ResumeCommand ==
  /\ query.kind \in {"rebuild", "showTarget"}
  /\ ResumeIndex(query.kind)
  /\ IF AwaitRejected THEN End("returned", "showErrorMessage", <<>>)
     ELSE IF query.kind = "rebuild" /\ packContent.scannedFiles = <<>>
     THEN End("returned", "showWarningMessage", <<>>)
     ELSE End("returned", "showInformationMessage", <<>>)

\* The editor cancels the call under way: it sets the token while the call
\* is suspended.  The request of the editor is handled as a task of its
\* own, so it cannot come between the settlement of the awaited promise and
\* the continuation of the call, which runs as a microtask.
Cancel ==
  /\ qPc \notin {"idle", "done"}
  /\ qPc = "index" => ~AwaitSettled
  /\ ~cancelled
  /\ cancelled' = TRUE
  /\ UNCHANGED <<cacheVars, buildVars, toolVars, workspaceFiles, openDocuments,
                 packContent, query, qPc, qTodo, qResults, qAwait, qOutcome>>

\* A completion item: its label and the band its sortText names ("0_" local
\* symbol, "1_" register, "2_" instruction, "3_" pack symbol).
Item(label, band) == [label |-> label, band |-> band]

\* The set "seen" of provideCompletionItems, for the items pushed so far.
SeenKeys(results) ==
  {completionSeenKey(results[i].label) : i \in DOMAIN results}

Min(a, b) == IF a <= b THEN a ELSE b

\* The indexes, in ascending order, of the names a loop of
\* provideCompletionItems pushes when no cap stops it: those that start with
\* the prefix and, where the loop tests "seen" (checkSeen), whose key is not
\* seen yet, neither from the items before the loop nor from an earlier name
\* of the loop.
PushedNames(names, key, seen, prefix, checkSeen) ==
  Ascending({i \in DOMAIN names :
               /\ startsWithIgnoreCase(names[i], prefix)
               /\ checkSeen =>
                    /\ key[i] \notin seen
                    /\ \A j \in 1..(i - 1) : key[j] # key[i]})

\* The names at the indexes of order, in that order.
PickNames(names, order) == [k \in DOMAIN order |-> names[order[k]]]

\* completionSeenKey of every name of a list.
SeenKeyOfNames(names) == [i \in DOMAIN names |-> completionSeenKey(names[i])]

\* The names a loop of provideCompletionItems pushes when no cap stops it, in
\* the order of names.
BandCandidates(results, names, prefix, checkSeen) ==
  PickNames(names, PushedNames(names, SeenKeyOfNames(names), SeenKeys(results),
                               prefix, checkSeen))

\* The number of candidates a loop pushes at most: the loop stops after the
\* push that makes results.length >= maxItems, so with room for r more items
\* it pushes at most r candidates, and it always pushes the first candidate,
\* the length being tested after the push.
Room(results, candidates, maxItems) ==
  IF maxItems.finite
  THEN Min(Len(candidates), Max(1, maxItems.value - Len(results)))
  ELSE Len(candidates)

\* The items a loop pushes for its candidates.
PushedItems(results, candidates, band, maxItems) ==
  [k \in 1..Room(results, candidates, maxItems) |-> Item(candidates[k], band)]

\* A band loop that puts its items before those of the earlier bands.
AddBandInFront(results, names, band, prefix, maxItems, checkSeen) ==
  PushedItems(results, BandCandidates(results, names, prefix, checkSeen),
              band, maxItems) \o results

\* One loop of provideCompletionItems over the names of a band: the results
\* after it.
AddBand(results, names, band, prefix, maxItems, checkSeen) ==
  results \o
    PushedItems(results, BandCandidates(results, names, prefix, checkSeen),
                band, maxItems)

\* The loop has returned (or left the loop) on results.length >= maxItems:
\* it pushed an item and the length has reached the cap.
BandFull(before, after, maxItems) ==
  Len(after) > Len(before) /\ ReachedMax(Len(after), maxItems)

\* The names of the values of a Map of local symbols, in iteration order.
SymbolNames(map) == [i \in DOMAIN map |-> map[i].symbol]

\* The names of the local symbols in the iteration order of the Map.
LocalNames(document) == SymbolNames(getLocalSymbols(document))

\* The values of maxCompletionItems the configuration may hold.
CompletionMaxValues == {ConfigNumber(v) : v \in {0, 2, 200}}

\* The items after a loop and whether the loop returned them.
BandResult(before, after, maxItems) ==
  [results |-> after, full |-> BandFull(before, after, maxItems)]

\* One loop of provideCompletionItems in its place: it does not run after a
\* loop that returned, nor when its setting disables it.
Band(bands, names, band, prefix, maxItems, checkSeen, enabled) ==
  IF bands.full \/ ~enabled THEN bands
  ELSE BandResult(bands.results,
                  AddBand(bands.results, names, band, prefix, maxItems,
                          checkSeen),
                  maxItems)

\* The three loops of provideCompletionItems before its await: local
\* symbols, register names, instruction mnemonics if enabled.
LocalBands(document, prefix, maxItems, enableInstructionCompletion) ==
  Band(Band(Band([results |-> <<>>, full |-> FALSE],
                 LocalNames(document), "local", prefix, maxItems, FALSE, TRUE),
            AVR_REGISTER_NAMES, "register", prefix, maxItems, TRUE, TRUE),
       AVR_INSTRUCTION_MNEMONICS, "instruction", prefix, maxItems, TRUE,
       enableInstructionCompletion)

\* provideCompletionItems up to its await.
StartCompletion(document, prefix, token, enableCompletion, maxItems, enableInstructionCompletion) ==
  /\ Begin([kind |-> "completion", document |-> document, prefix |-> prefix,
            enableCompletion |-> enableCompletion, maxItems |-> maxItems,
            enableInstructionCompletion |-> enableInstructionCompletion],
           token)
  /\ \E bands \in {LocalBands(document, prefix, maxItems,
                                enableInstructionCompletion)} :
        IF token \/ ~enableCompletion
        THEN End("returned", "list", <<>>) /\ NoCacheChange
        ELSE IF bands.full
        THEN End("returned", "list", bands.results) /\ NoCacheChange
        ELSE /\ CallGetDfpIndex(
                  getIndexScopeForDocument(document, workspaceFolders), FALSE)
             /\ Suspend("index", <<>>, bands.results)

\* provideCompletionItems after its await: the loop over index.symbolList.
ResumeCompletion ==
  /\ ResumeIndex("completion")
  /\ IF AwaitRejected THEN End("rejected", "none", <<>>)
     ELSE IF cancelled THEN End("returned", "list", qResults)
     ELSE End("returned", "list",
              AddBand(qResults, packContent.symbolList, "pack", query.prefix,
                      query.maxItems, TRUE))

DEFAULT_MAX_WORKSPACE_SYMBOLS == 300
DEFAULT_MAX_REFERENCE_RESULTS == 500

\* The values of maxReferenceResults and of maxWorkspaceSymbols the
\* configuration may hold.
ResultMaxValues == {NotANumber, ConfigNumber(5), ConfigNumber(MaxTextLines)}

\* The key of addLocation: uri, line and column.
LocationKey(location) == <<location.uri, location.line, location.column>>

\* The dedupe key of provideWorkspaceSymbols: uri, line, column and name for
\* a local symbol; "dfp", file, line and name for a pack symbol.
SymbolKey(info) ==
  <<info.container, info.uri, info.line,
    IF info.container = "local" THEN info.column ELSE 0, info.name>>

\* The key of a result: of a location or of a symbol.
ResultKey(item) ==
  IF "container" \in DOMAIN item THEN SymbolKey(item) ELSE LocationKey(item)

\* The closure addLocation of provideReferences and the closure addSymbol of
\* provideWorkspaceSymbols, applied to each item of new in order until one
\* application returns true: an item whose key is seen is not pushed, and
\* the application that makes results.length >= max ends the loop.
AddResults(results, new, max) ==
  LET seen == {ResultKey(results[i]) : i \in DOMAIN results}
      fresh == {i \in DOMAIN new :
                  /\ ResultKey(new[i]) \notin seen
                  /\ \A j \in 1..(i - 1) :
                       ResultKey(new[j]) # ResultKey(new[i])}
      order == Ascending(fresh)
      room == Max(1, max - Len(results))
  IN results \o [k \in 1..Min(Cardinality(fresh), room) |-> new[order[k]]]

\* A closure that never returns true: a mutant without the cap.
ResultsNeverFull(before, after, max) == Len(after) < Len(before)

\* An application of the closure has returned true.
ResultsFull(before, after, max) == Len(after) > Len(before) /\ Len(after) >= max

\* getOpenAssemblyDocumentMap(): the open documents that are assembly
\* documents.
getOpenAssemblyDocumentMap == SelectSeq(openDocuments, isAssemblyDocument)

\* getWorkspaceAssemblyFiles(maxFiles): the uris findFiles yields that are
\* assembly uris.
getWorkspaceAssemblyFiles ==
  LET found == [i \in DOMAIN workspaceFiles |-> workspaceFiles[i].uri]
  IN SelectSeq(found, isAssemblyUri)

\* The values of a Map filled by set(key) for each key of keys in order: a
\* key keeps the place of its first set.
MapKeys(keys) ==
  LET order == Ascending({i \in DOMAIN keys :
                            \A j \in 1..(i - 1) : keys[j] # keys[i]})
  IN [k \in DOMAIN order |-> keys[order[k]]]

\* getTextForUri(uri, openDocumentMap): the text of the open document, else
\* the text on disk, else the empty text.
getTextForUri(uri) ==
  LET openDocs == getOpenAssemblyDocumentMap
  IN IF \E i \in DOMAIN openDocs : openDocs[i].uri = uri
     THEN openDocs[CHOOSE i \in DOMAIN openDocs : openDocs[i].uri = uri].lines
     ELSE IF \E i \in DOMAIN workspaceFiles : workspaceFiles[i].uri = uri
     THEN workspaceFiles[CHOOSE i \in DOMAIN workspaceFiles :
                           workspaceFiles[i].uri = uri].lines
     ELSE <<>>

\* The location provideReferences makes of each match.
LocationsOfMatches(uri, matches) ==
  [k \in DOMAIN matches |-> Location(uri, matches[k].line, matches[k].column)]

\* The locations provideReferences adds for the matches of a text, in match
\* order, before the dedupe and the cap.
MatchLocations(uri, lines, symbol, includeDeclaration) ==
  LocationsOfMatches(uri,
    SelectSeq(findSymbolMatchesInText(lines, symbol),
              LAMBDA match :
                includeDeclaration
                  \/ ~isDefinitionOccurrence(match.lineText, symbol,
                                             match.column)))

\* The locations provideReferences adds for the hits of the pack index.
HitLocations(hits, symbol) ==
  [i \in DOMAIN hits |->
     Location(UriFile(hits[i].file), Max(0, hits[i].line - 1),
              Max(0, indexOf(hits[i].text, symbol)))]

\* The documents a provider is called for: the open documents.
QueryDocuments == Range(openDocuments)

\* provideReferences up to its first await, of getWorkspaceAssemblyFiles.
StartReferences(document, word, includeDeclaration, token, enableReferences, maxReferenceResults) ==
  /\ Begin([kind |-> "references", document |-> document, word |-> word,
            includeDeclaration |-> includeDeclaration,
            enableReferences |-> enableReferences,
            configured |-> maxReferenceResults,
            max |-> clampConfigNumber(maxReferenceResults,
                                      DEFAULT_MAX_REFERENCE_RESULTS,
                                      20, 20000)],
           token)
  /\ IF token \/ ~enableReferences \/ word = NoMatch
     THEN End("returned", "list", <<>>)
     ELSE Suspend("findFiles", <<>>, <<>>)
  /\ NoCacheChange

\* The uris provideReferences scans: the workspace files, the open assembly
\* documents, the document of the query.
ReferenceUris(document) ==
  LET openDocs == getOpenAssemblyDocumentMap
  IN MapKeys(getWorkspaceAssemblyFiles
               \o [i \in DOMAIN openDocs |-> openDocs[i].uri]
               \o (IF isAssemblyDocument(document)
                   THEN <<document.uri>> ELSE <<>>))

\* provideReferences after the await of getWorkspaceAssemblyFiles, up to the
\* await of the text of the first uri.
ResumeFindFiles ==
  /\ query.kind = "references"
  /\ qPc = "findFiles"
  /\ IF cancelled THEN End("returned", "list", <<>>)
     ELSE Suspend("text", ReferenceUris(query.document), <<>>)
  /\ NoCacheChange
  /\ UNCHANGED <<buildVars, toolVars, workspaceFiles, openDocuments, packContent, query,
                 cancelled>>

\* provideReferences after the await of the text of a uri: the matches of
\* the text are added; then the next uri is read, or after the last uri the
\* pack index is asked for when declarations are included.
ScanReferences ==
  /\ query.kind = "references"
  /\ qPc = "text"
  /\ qTodo # <<>>
  /\ \E after \in {AddResults(qResults,
                               MatchLocations(Head(qTodo),
                                              getTextForUri(Head(qTodo)),
                                              query.word,
                                              query.includeDeclaration), query.max)} :
        IF cancelled
        THEN End("returned", "list", qResults) /\ NoCacheChange
        ELSE IF ResultsFull(qResults, after, query.max)
        THEN End("returned", "list", after) /\ NoCacheChange
        ELSE IF Tail(qTodo) # <<>>
        THEN Suspend("text", Tail(qTodo), after) /\ NoCacheChange
        ELSE IF ~query.includeDeclaration
        THEN End("returned", "list", after) /\ NoCacheChange
        ELSE /\ CallGetDfpIndex(
                  getIndexScopeForDocument(query.document, workspaceFolders),
                  FALSE)
             /\ Suspend("index", <<>>, after)
  /\ UNCHANGED <<buildVars, toolVars, workspaceFiles, openDocuments, packContent, query,
                 cancelled>>

\* provideReferences after the await of getDfpIndex: the hits of the symbol
\* are added.
ResumeReferences ==
  /\ ResumeIndex("references")
  /\ IF AwaitRejected THEN End("rejected", "none", <<>>)
     ELSE IF cancelled THEN End("returned", "list", qResults)
     ELSE End("returned", "list",
              AddResults(qResults,
                         HitLocations(IndexHits(packContent, query.word),
                                      query.word), query.max))

\* String.prototype.trim
Trim(s) ==
  LET kept == {i \in DOMAIN s : ~IsSpace(s[i])}
  IN IF kept = {} THEN <<>>
     ELSE SubSeq(s, CHOOSE i \in kept : \A j \in kept : i <= j,
                 CHOOSE i \in kept : \A j \in kept : j <= i)

\* getAllWorkspaceIndexScopes(): the scope of each workspace folder in the
\* order of the folders, or the default scope alone without folders.
getAllWorkspaceIndexScopes(folders, defaultScope) ==
  IF folders = {} THEN <<defaultScope>>
  ELSE LET order == SetToSeq(folders)
       IN [i \in DOMAIN order |-> FolderKey(order[i])]

\* new vscode.SymbolInformation(name, kind, containerName, location): the
\* container name tells a local symbol from a pack symbol.
SymbolInformation(name, container, uri, line, column) ==
  [name |-> name, container |-> container, uri |-> uri, line |-> line,
   column |-> column]

\* The symbol provideWorkspaceSymbols makes of each local entry.
SymbolInfosOfEntries(uri, entries) ==
  [k \in DOMAIN entries |->
     SymbolInformation(entries[k].symbol, "local", uri, entries[k].line,
                       entries[k].column)]

\* The symbols provideWorkspaceSymbols adds for the text of a uri, before
\* the dedupe and the cap: the entries whose name includes the query.
LocalSymbolInfos(uri, lines, normalized) ==
  SymbolInfosOfEntries(uri,
    SelectSeq(parseLocalSymbolsFromLines(lines).entries,
              LAMBDA entry : includes(toLowerCase(entry.symbol), normalized)))

\* The symbols provideWorkspaceSymbols adds for an index, before the dedupe
\* and the cap: the names that include the query and have a first hit.
PackSymbolInfos(index, normalized) ==
  LET order == Ascending({i \in DOMAIN index.symbolList :
                 /\ includes(toLowerCase(index.symbolList[i]), normalized)
                 /\ index.hits[i] # <<>>})
  IN [k \in DOMAIN order |->
        LET symbol == index.symbolList[order[k]]
            first == index.hits[order[k]][1]
        IN SymbolInformation(symbol, "pack", UriFile(first.file),
                             Max(0, first.line - 1),
                             Max(0, indexOf(first.text, symbol)))]

\* provideWorkspaceSymbols up to its first await, of
\* getWorkspaceAssemblyFiles.
StartWorkspaceSymbols(text, token, maxWorkspaceSymbols, includeDfpInWorkspaceSymbols) ==
  /\ Begin([kind |-> "workspaceSymbols",
            normalized |-> toLowerCase(Trim(text)),
            configured |-> maxWorkspaceSymbols,
            max |-> clampConfigNumber(maxWorkspaceSymbols,
                                      DEFAULT_MAX_WORKSPACE_SYMBOLS,
                                      20, 20000),
            includeDfpInWorkspaceSymbols |-> includeDfpInWorkspaceSymbols],
           token)
  /\ IF token \/ toLowerCase(Trim(text)) = <<>>
     THEN End("returned", "list", <<>>)
     ELSE Suspend("findFiles", <<>>, <<>>)
  /\ NoCacheChange

\* The loop of provideWorkspaceSymbols over the scopes, from the top of an
\* iteration to the await of getDfpIndex; after the last scope the results
\* are returned.
NextScope(scopes, results) ==
  IF scopes = <<>>
  THEN End("returned", "list", results) /\ NoCacheChange
  ELSE /\ CallGetDfpIndex(Head(scopes), FALSE)
       /\ Suspend("index", scopes, results)

\* The pack part of provideWorkspaceSymbols, entered after the last uri.
PackSymbols(results) ==
  IF ~query.includeDfpInWorkspaceSymbols
  THEN End("returned", "list", results) /\ NoCacheChange
  ELSE \E d \in getDefaultIndexScope(workspaceFolders) :
         NextScope(getAllWorkspaceIndexScopes(workspaceFolders, d), results)

\* provideWorkspaceSymbols after the await of getWorkspaceAssemblyFiles, up
\* to the await of the text of the first uri.
ResumeFindSymbolFiles ==
  /\ query.kind = "workspaceSymbols"
  /\ qPc = "findFiles"
  /\ \E uris \in {MapKeys(getWorkspaceAssemblyFiles
                              \o [i \in DOMAIN getOpenAssemblyDocumentMap |->
                                    getOpenAssemblyDocumentMap[i].uri])} :
        IF cancelled
        THEN End("returned", "list", <<>>) /\ NoCacheChange
        ELSE IF uris = <<>> THEN PackSymbols(<<>>)
        ELSE Suspend("text", uris, <<>>) /\ NoCacheChange
  /\ UNCHANGED <<buildVars, toolVars, workspaceFiles, openDocuments, packContent, query,
                 cancelled>>

\* provideWorkspaceSymbols after the await of the text of a uri: the local
\* symbols of the text are added; then the next uri is read, or after the
\* last uri the pack part begins.
ScanSymbols ==
  /\ query.kind = "workspaceSymbols"
  /\ qPc = "text"
  /\ qTodo # <<>>
  /\ \E after \in {AddResults(qResults,
                               LocalSymbolInfos(Head(qTodo),
                                                getTextForUri(Head(qTodo)),
                                                query.normalized), query.max)} :
        IF cancelled
        THEN End("returned", "list", qResults) /\ NoCacheChange
        ELSE IF ResultsFull(qResults, after, query.max)
        THEN End("returned", "list", after) /\ NoCacheChange
        ELSE IF Tail(qTodo) # <<>>
        THEN Suspend("text", Tail(qTodo), after) /\ NoCacheChange
        ELSE PackSymbols(after)
  /\ UNCHANGED <<buildVars, toolVars, workspaceFiles, openDocuments, packContent, query,
                 cancelled>>

\* provideWorkspaceSymbols with a catch that returns the results in place of
\* "continue": a mutant that gives up the other scopes after a failure.
ResumeSymbolsStopOnFailure ==
  /\ query.kind = "workspaceSymbols"
  /\ qPc = "index"
  /\ AwaitSettled
  /\ \E after \in {AddResults(qResults,
                               PackSymbolInfos(packContent, query.normalized), query.max)} :
        IF cancelled \/ AwaitRejected
        THEN End("returned", "list", qResults) /\ NoCacheChange
        ELSE IF ResultsFull(qResults, after, query.max)
        THEN End("returned", "list", after) /\ NoCacheChange
        ELSE NextScope(Tail(qTodo), after)
  /\ UNCHANGED <<buildVars, toolVars, workspaceFiles, openDocuments, packContent, query,
                 cancelled>>

\* provideWorkspaceSymbols after the await of getDfpIndex for a scope: a
\* failure is caught and the scope skipped, else the pack symbols of the
\* index are added; then the index of the next scope is asked for.
ResumeSymbols ==
  /\ query.kind = "workspaceSymbols"
  /\ qPc = "index"
  /\ AwaitSettled
  /\ \E after \in {AddResults(qResults,
                               PackSymbolInfos(packContent, query.normalized), query.max)} :
        IF cancelled
        THEN End("returned", "list", qResults) /\ NoCacheChange
        ELSE IF AwaitRejected THEN NextScope(Tail(qTodo), qResults)
        ELSE IF ResultsFull(qResults, after, query.max)
        THEN End("returned", "list", after) /\ NoCacheChange
        ELSE NextScope(Tail(qTodo), after)
  /\ UNCHANGED <<buildVars, toolVars, workspaceFiles, openDocuments, packContent, query,
                 cancelled>>

\* The steps of the providers and the commands, with the steps of the index
\* builds they wait for.
QueryNext ==
  \/ \E k \in ScopeKeys : Activate(k)
  \/ \E b \in 1..MaxBuilds : BuildThen(b)
  \/ \E b \in 1..MaxBuilds : BuildCatch(b)
  \/ \E b \in 1..MaxBuilds : BuildFinally(b)
  \/ Cancel
  \/ \E d \in QueryDocuments, w \in WordsAtPosition, t \in BOOLEAN :
       StartHover(d, w, t)
  \/ ResumeHover
  \/ \E d \in QueryDocuments, w \in WordsAtPosition, t \in BOOLEAN :
       StartDefinition(d, w, t)
  \/ ResumeDefinition
  \/ \E d \in QueryDocuments, p \in Prefixes, t \in BOOLEAN, e \in BOOLEAN,
        m \in CompletionMaxValues, i \in BOOLEAN :
       StartCompletion(d, p, t, e, m, i)
  \/ ResumeCompletion
  \/ \E d \in QueryDocuments, w \in WordsAtPosition, i \in BOOLEAN,
        t \in BOOLEAN, e \in BOOLEAN, m \in ResultMaxValues :
       StartReferences(d, w, i, t, e, m)
  \/ ResumeFindFiles
  \/ ScanReferences
  \/ ResumeReferences
  \/ \E q \in SymbolQueries, t \in BOOLEAN, m \in ResultMaxValues,
        i \in BOOLEAN :
       StartWorkspaceSymbols(q, t, m, i)
  \/ ResumeFindSymbolFiles
  \/ ScanSymbols
  \/ ResumeSymbols
  \/ \E c \in {"rebuild", "showTarget"},
        k \in getDefaultIndexScope(workspaceFolders) :
       StartCommand(c, k)
  \/ ResumeCommand

(***************************************************************************)
(* The functions and the cache outside the pack index.                     *)
(***************************************************************************)

\* No function call is under study.
NoArgs == [function |-> "none"]
NoResult == [kind |-> "none"]

\* No document is followed, and the Map localSymbolCache is not followed.
NoEditorDocs == <<>>
NoLocalData == [kind |-> "none"]

\* The characters of the texts compared, in the order localeCompare gives
\* them at the first level: punctuation before digits before letters, the
\* letters without regard to case.
CollationOrder ==
  <<" ", "_", "-", ".", "0", "1", "2", "3", "4", "5", "6", "7", "8", "9">>
    \o LowerCaseLetters

CollationRank(c) ==
  CHOOSE i \in DOMAIN CollationOrder : CollationOrder[i] = LowerChar(c)

PrimaryKey(text) == [i \in DOMAIN text |-> CollationRank(text[i])]

\* The value of a digit character.
DigitValue(c) == CollationRank(c) - 5

\* The first position where two sequences differ, 0 when one is a prefix of
\* the other.
FirstTextDifference(a, b) ==
  LET differing == {i \in 1..Len(a) : i <= Len(b) /\ a[i] # b[i]}
  IN  IF differing = {} THEN 0
      ELSE CHOOSE i \in differing : \A j \in differing : i <= j

\* The order of two key sequences by the first differing key, a proper
\* prefix before its extensions.
KeyOrder(a, b, at) ==
  IF at = 0
  THEN IF Len(a) < Len(b) THEN -1 ELSE IF Len(a) > Len(b) THEN 1 ELSE 0
  ELSE IF a[at] < b[at] THEN -1 ELSE 1

\* Between texts with the same keys, the first difference of case decides:
\* the lower-case letter first.
CaseOrder(a, b, at) ==
  IF at = 0 THEN 0 ELSE IF a[at] = LowerChar(a[at]) THEN -1 ELSE 1

TextOrder(a, b, byKey) ==
  IF byKey # 0 THEN byKey ELSE CaseOrder(a, b, FirstTextDifference(a, b))

PrimaryOrder(ka, kb) == KeyOrder(ka, kb, FirstTextDifference(ka, kb))

\* String(a).localeCompare(String(b)) on texts of these characters.
TextLocaleCompare(a, b) ==
  TextOrder(a, b, PrimaryOrder(PrimaryKey(a), PrimaryKey(b)))

\* split(/[^0-9]+/).filter((part) => part.length > 0): the maximal runs
\* of digits of a text; run is the run that ends where text starts.
RECURSIVE DigitRuns(_, _, _)
DigitRuns(text, run, parts) ==
  IF text = <<>>
  THEN IF run = <<>> THEN parts ELSE Append(parts, run)
  ELSE IF Head(text) \in Digits
       THEN DigitRuns(Tail(text), Append(run, Head(text)), parts)
       ELSE DigitRuns(Tail(text), <<>>,
                      IF run = <<>> THEN parts ELSE Append(parts, run))

\* Number(part) of a run of digits.
RECURSIVE NumberOfDigits(_)
NumberOfDigits(part) ==
  IF part = <<>> THEN 0
  ELSE NumberOfDigits(SubSeq(part, 1, Len(part) - 1)) * 10
       + DigitValue(part[Len(part)])

NumbersOf(parts) == [i \in DOMAIN parts |-> NumberOfDigits(parts[i])]

parseVersionParts(versionText) == NumbersOf(DigitRuns(versionText, <<>>, <<>>))

\* i < parts.length ? parts[i] : 0, counting from 1.
PartAt(parts, i) == IF i <= Len(parts) THEN parts[i] ELSE 0

\* The positions where the padded component sequences differ.
DifferingParts(leftParts, rightParts) ==
  {i \in 1..Max(Len(leftParts), Len(rightParts)) :
     PartAt(leftParts, i) # PartAt(rightParts, i)}

FirstDifferingPart(differing) ==
  IF differing = {} THEN 0
  ELSE CHOOSE i \in differing : \A j \in differing : i <= j

\* The loop of compareVersionLabels and its final return.
ComparePartsRawOnly(leftParts, rightParts, at, leftVersion, rightVersion) ==
  TextLocaleCompare(leftVersion, rightVersion)

ComparePartsNoTiebreak(leftParts, rightParts, at, leftVersion, rightVersion) ==
  IF at # 0 THEN PartAt(leftParts, at) - PartAt(rightParts, at) ELSE 0

CompareParts(leftParts, rightParts, at, leftVersion, rightVersion) ==
  IF at # 0 THEN PartAt(leftParts, at) - PartAt(rightParts, at)
  ELSE TextLocaleCompare(leftVersion, rightVersion)

CompareParsed(leftParts, rightParts, leftVersion, rightVersion) ==
  CompareParts(leftParts, rightParts,
               FirstDifferingPart(DifferingParts(leftParts, rightParts)),
               leftVersion, rightVersion)

compareVersionLabels(leftVersion, rightVersion) ==
  CompareParsed(parseVersionParts(leftVersion),
                parseVersionParts(rightVersion), leftVersion, rightVersion)

\* The version labels compared: every text of up to MaxVersionLength of
\* these characters, and the labels "2.3.10", "2.3.9", "1.0", "1.0.0",
\* "1.10".
VersionAlphabet == {"0", "1", "9", "."}

SampleVersions ==
  { <<"2", ".", "3", ".", "1", "0">>, <<"2", ".", "3", ".", "9">>,
    <<"1", ".", "0">>, <<"1", ".", "0", ".", "0">>, <<"1", ".", "1", "0">> }

Versions ==
  SampleVersions
    \cup UNION {[1..n -> VersionAlphabet] : n \in 0..MaxVersionLength}

\* A call of compareVersionLabels returns.
CompareVersions ==
  /\ args.function = "compareVersionLabels"
  /\ result = NoResult
  /\ result' = [kind |-> "number",
                value |-> compareVersionLabels(args.leftVersion,
                                               args.rightVersion)]
  /\ UNCHANGED <<cacheVars, buildVars, queryVars, args, editorDocs,
                 localSymbolCache, localData>>

VersionNext == CompareVersions

\* The upper-case letter of each lower-case letter.
UpperCaseOf ==
  [c \in Range(LowerCaseLetters) |->
     UpperCaseLetters[CHOOSE i \in DOMAIN LowerCaseLetters :
                        LowerCaseLetters[i] = c]]

UpperChar(c) == IF c \in DOMAIN UpperCaseOf THEN UpperCaseOf[c] ELSE c

\* String.prototype.toUpperCase
toUpperCase(s) == [i \in DOMAIN s |-> UpperChar(s[i])]

\* [0-9a-z] under the flag i
IsAlnum(c) == LowerChar(c) \in Digits \cup Range(LowerCaseLetters)

\* [0-9a-z]+ under the flag i
IsAlnums(text) == text # <<>> /\ \A i \in DOMAIN text : IsAlnum(text[i])

\* [0-9][0-9a-z]* under the flag i
IsDigitThenAlnums(text) == IsAlnums(text) /\ text[1] \in Digits

\* The regular expressions of normalizeGuessedDeviceName in the order they
\* are tried: the prefix matched without regard to case, what must follow it
\* and the family name the result starts with.
DeviceNameRules ==
  << [prefix |-> <<"9", "0">>, digitFirst |-> FALSE, family |-> <<"A", "T", "9", "0">>],
     [prefix |-> <<"t", "n">>, digitFirst |-> TRUE, family |-> <<"A", "T", "t", "i", "n", "y">>],
     [prefix |-> <<"m">>, digitFirst |-> TRUE, family |-> <<"A", "T", "m", "e", "g", "a">>],
     [prefix |-> <<"a", "t", "t", "i", "n", "y">>, digitFirst |-> TRUE, family |-> <<"A", "T", "t", "i", "n", "y">>],
     [prefix |-> <<"a", "t", "m", "e", "g", "a">>, digitFirst |-> TRUE, family |-> <<"A", "T", "m", "e", "g", "a">>],
     [prefix |-> <<"a", "t", "x", "m", "e", "g", "a">>, digitFirst |-> TRUE, family |-> <<"A", "T", "x", "m", "e", "g", "a">>],
     [prefix |-> <<"t", "i", "n", "y">>, digitFirst |-> TRUE, family |-> <<"A", "T", "t", "i", "n", "y">>],
     [prefix |-> <<"m", "e", "g", "a">>, digitFirst |-> TRUE, family |-> <<"A", "T", "m", "e", "g", "a">>],
     [prefix |-> <<"x", "m", "e", "g", "a">>, digitFirst |-> TRUE, family |-> <<"A", "T", "x", "m", "e", "g", "a">>],
     [prefix |-> <<"a", "v", "r">>, digitFirst |-> TRUE, family |-> <<"A", "V", "R">>],
     [prefix |-> <<"a", "t", "9", "0">>, digitFirst |-> FALSE, family |-> <<"A", "T", "9", "0">>],
     [prefix |-> <<"a", "t">>, digitFirst |-> FALSE, family |-> <<"A", "T">>] >>

AfterPrefix(raw, prefix) == SubSeq(raw, Len(prefix) + 1, Len(raw))

RuleMatches(rule, raw) ==
  /\ Len(raw) > Len(rule.prefix)
  /\ toLowerCase(SubSeq(raw, 1, Len(rule.prefix))) = rule.prefix
  /\ IF rule.digitFirst THEN IsDigitThenAlnums(AfterPrefix(raw, rule.prefix))
     ELSE IsAlnums(AfterPrefix(raw, rule.prefix))

ApplyRule(rule, raw) == rule.family \o toUpperCase(AfterPrefix(raw, rule.prefix))

MatchingRules(raw) == {i \in DOMAIN DeviceNameRules : RuleMatches(DeviceNameRules[i], raw)}

NormalizeTrimmed(raw, matching) ==
  IF matching = {} THEN raw
  ELSE ApplyRule(DeviceNameRules[CHOOSE i \in matching : \A j \in matching : i <= j], raw)

normalizeGuessedDeviceName(rawDeviceName) ==
  NormalizeTrimmed(Trim(rawDeviceName), MatchingRules(Trim(rawDeviceName)))

\* A text searched for devices, by the constructs the four regular
\* expressions of extractDeviceCandidatesFromText match, each with the name
\* the expression captures:
\*   "token"    ATmega328P as a word        "macro"    __AVR_<name>__
\*   "include"  #include <avr/io<name>.h>   "definc"   .include "<name>def.inc"
Construct(form, name) == [form |-> form, name |-> name]

HasDigit(text) == \E i \in DOMAIN text : text[i] \in Digits

NotUnderscore(c) == c # "_"

\* match[1].replace(/_/g, '')
MacroName(name) == SelectSeq(name, NotUnderscore)

\* /\d/.test(macroName) || /^AT90/i.test(macroName)
IsDeviceMacro(construct) ==
  /\ construct.form = "macro"
  /\ \/ HasDigit(MacroName(construct.name))
     \/ toLowerCase(SubSeq(MacroName(construct.name), 1, 4)) = <<"a", "t", "9", "0">>

IsToken(construct) == construct.form = "token"
IsInclude(construct) == construct.form = "include"
IsDefInc(construct) == construct.form = "definc"

WEIGHT_TOKEN == 5
WEIGHT_MACRO == 8
WEIGHT_INCLUDE == 12
WEIGHT_DEFINC == 14

Weighted(constructs, weight) ==
  [i \in DOMAIN constructs |->
     [device |-> IF constructs[i].form = "macro"
                 THEN MacroName(constructs[i].name) ELSE constructs[i].name,
      weight |-> weight]]

\* The candidates in the order of the four loops.
extractDeviceCandidatesFromText(text) ==
  Weighted(SelectSeq(text, IsToken), WEIGHT_TOKEN)
    \o Weighted(SelectSeq(text, IsDeviceMacro), WEIGHT_MACRO)
    \o Weighted(SelectSeq(text, IsInclude), WEIGHT_INCLUDE)
    \o Weighted(SelectSeq(text, IsDefInc), WEIGHT_DEFINC)

\* The Map score as its entries in the order of insertion.
ScoreIndex(score, device) ==
  IF \E i \in DOMAIN score : score[i].device = device
  THEN CHOOSE i \in DOMAIN score : score[i].device = device
  ELSE 0

SetScore(score, at, device, weight) ==
  IF at = 0 THEN Append(score, [device |-> device, score |-> weight])
  ELSE [score EXCEPT ![at].score = @ + weight]

\* addScore(deviceName, weight), the name normalized.
AddNormalizedScore(score, normalized, weight) ==
  IF normalized = <<>> THEN score
  ELSE SetScore(score, ScoreIndex(score, normalized), normalized, weight)

\* A closure that keeps the raw name: a mutant without the canonical names.
addScoreRaw(score, deviceName, weight) ==
  AddNormalizedScore(score, deviceName, weight)

addScore(score, deviceName, weight) ==
  AddNormalizedScore(score, normalizeGuessedDeviceName(deviceName), weight)

RECURSIVE AddScores(_, _)
AddScores(score, candidates) ==
  IF candidates = <<>> THEN score
  ELSE AddScores(addScore(score, Head(candidates).device,
                          Head(candidates).weight),
                 Tail(candidates))

\* The candidates of the texts in the order of the files.
RECURSIVE CandidatesOf(_)
CandidatesOf(texts) ==
  IF texts = <<>> THEN <<>>
  ELSE extractDeviceCandidatesFromText(Head(texts)) \o CandidatesOf(Tail(texts))

\* The loop over score.entries().
Better(entry, bestDevice, bestScore) ==
  \/ entry.score > bestScore
  \/ entry.score = bestScore /\ TextLocaleCompare(entry.device, bestDevice) < 0

RECURSIVE BestEntry(_, _, _)
BestEntry(score, bestDevice, bestScore) ==
  IF score = <<>> THEN [device |-> bestDevice, score |-> bestScore]
  ELSE IF Better(Head(score), bestDevice, bestScore)
       THEN BestEntry(Tail(score), Head(score).device, Head(score).score)
       ELSE BestEntry(Tail(score), bestDevice, bestScore)

BestDevice(best) == IF best.score > 0 THEN best.device ELSE <<>>

DEFAULT_MAX_WORKSPACE_SCAN_FILES == 400
DEFAULT_MAX_DEVICE_INFERENCE_FILES == 60

\* scanLimit of inferDeviceFromWorkspaceText, from the configured
\* maxWorkspaceScanFiles.
ScanLimit(configured) ==
  Max(1, Min(clampConfigNumber(configured, DEFAULT_MAX_WORKSPACE_SCAN_FILES,
                               20, 10000),
             DEFAULT_MAX_DEVICE_INFERENCE_FILES))

\* A workspace searched for devices: the number of assembly files findFiles
\* can yield, the texts of the files that have one (the others hold no
\* device construct), by their place in the order of findFiles, and the
\* open document, if any, whose text stands for that of its file.
TextAt(placed, i) ==
  IF \E k \in DOMAIN placed : placed[k].at = i
  THEN placed[CHOOSE k \in DOMAIN placed : placed[k].at = i].text
  ELSE <<>>

\* vscode.workspace.findFiles(include, exclude, maxFiles): the first
\* maxFiles files.
FindFiles(fileCount, maxFiles) == 1..Min(fileCount, maxFiles)

\* The texts getTextForUri yields for the files found that hold a device
\* construct, in the order of the files.
TextsOf(placements) == [k \in DOMAIN placements |-> placements[k].text]

FoundTexts(placed, found) ==
  TextsOf(SelectSeq(placed, LAMBDA placement : placement.at \in found))

\* Where an open document stands for a file, its text replaces the text on
\* disk.
WithOpenDocument(placed, open) ==
  [k \in DOMAIN placed |->
     IF placed[k].at = open.at THEN [at |-> open.at, text |-> open.text]
     ELSE placed[k]]

\* The scores of the files found, and the device they give.
ScoreOfFiles(texts) == AddScores(<<>>, CandidatesOf(texts))

InferredDevice(found, texts) ==
  IF found = {} THEN <<>>
  ELSE BestDevice(BestEntry(ScoreOfFiles(texts), <<>>, -1))

\* The workspaces searched: the configured maxWorkspaceScanFiles, the
\* number of files, the texts and the open document.
ScanFileValues ==
  {NotANumber, ConfigNumber(5), ConfigNumber(20),
   ConfigNumber(DEFAULT_MAX_WORKSPACE_SCAN_FILES)}

FileCounts == {0, 1, 2, 21, MaxWorkspaceFiles}

Placed(at, text) == [at |-> at, text |-> text]

NoOpenText == Placed(0, <<>>)

DeviceTexts ==
  { <<>>,
    <<Placed(1, <<Construct("token", <<"A", "T", "t", "i", "n", "y", "8", "5">>),
                  Construct("token", <<"A", "T", "m", "e", "g", "a", "3", "2", "8", "P">>)>>)>>,
    <<Placed(1, <<Construct("include", <<"t", "n", "8", "5">>)>>),
      Placed(2, <<Construct("token", <<"A", "T", "m", "e", "g", "a", "3", "2", "8", "p">>),
                  Construct("token", <<"A", "T", "m", "e", "g", "a", "3", "2", "8", "P">>),
                  Construct("macro", <<"A", "T", "m", "e", "g", "a", "3", "2", "8", "P">>)>>)>>,
    <<Placed(1, <<Construct("include", <<"m", "3", "2", "8", "p">>)>>),
      Placed(2, <<Construct("token", <<"A", "T", "m", "e", "g", "a", "3", "2", "8", "P">>)>>),
      Placed(21, <<Construct("definc", <<"t", "n", "8", "5">>),
                   Construct("definc", <<"t", "n", "8", "5">>)>>)>>,
    <<Placed(1, <<Construct("macro", <<"H", "A", "V", "E", "_", "M", "U", "L">>)>>)>>,
    <<Placed(1, <<Construct("include", <<"m", "8">>)>>),
      Placed(60, <<Construct("token", <<"A", "V", "R", "1", "2", "8", "D", "A", "3", "2">>)>>),
      Placed(61, <<Construct("definc", <<"m", "3", "2", "8", "P">>)>>)>> }

OpenTexts == {NoOpenText, Placed(1, <<Construct("definc", <<"t", "n", "8", "5">>)>>)}

\* inferDeviceFromWorkspaceText up to its await of findFiles.
FindInferenceFiles ==
  /\ args.function = "inferDeviceFromWorkspaceText"
  /\ result = NoResult
  /\ result' = [kind |-> "files",
                found |-> FindFiles(args.fileCount, ScanLimit(args.configured))]
  /\ UNCHANGED <<cacheVars, buildVars, queryVars, args, editorDocs,
                 localSymbolCache, localData>>

\* inferDeviceFromWorkspaceText from the files found to its return.
ScoreInferenceFiles ==
  /\ args.function = "inferDeviceFromWorkspaceText"
  /\ result.kind = "files"
  /\ result' = [kind |-> "device",
                sampled |-> Cardinality(result.found),
                device |->
                  InferredDevice(result.found,
                                 FoundTexts(WithOpenDocument(args.placed,
                                                              args.open),
                                            result.found))]
  /\ UNCHANGED <<cacheVars, buildVars, queryVars, args, editorDocs,
                 localSymbolCache, localData>>

InferNext == FindInferenceFiles \/ ScoreInferenceFiles

\* A path is the sequence of its segments, the empty path as the code's ''.
\* os.homedir() and the pack directory under it:
HomeDir == <<"~">>
PacksDir == <<".", "m", "c", "h", "p", "_", "p", "a", "c", "k", "s">>
DEFAULT_PACK_VENDOR == <<"M", "i", "c", "r", "o", "c", "h", "i", "p">>

\* text.endsWith(part)
EndsWithText(text, part) ==
  /\ Len(text) >= Len(part)
  /\ SubSeq(text, Len(text) - Len(part) + 1, Len(text)) = part

\* A project descriptor (.mplab.json) as detectMplabTarget reads it: whether
\* its text is read and parses, the device of its first configuration ('' when
\* it has none) and the packs of that configuration.
ProjectFile(parses, device, packs) ==
  [parses |-> parses, device |-> device, packs |-> packs]

Pack(vendor, name, version) ==
  [vendor |-> vendor, name |-> name, version |-> version]

NoPack == Pack(DEFAULT_PACK_VENDOR, <<>>, <<>>)
NoTarget == [found |-> FALSE, device |-> <<>>, pack |-> NoPack]

\* packs.find(name includes 'DFP') || packs[0] || null, as the pack record
\* detectMplabTarget makes of it.
IsDfpPack(pack) == includes(toUpperCase(pack.name), <<"D", "F", "P">>)

PackCandidate(packs) ==
  IF SelectSeq(packs, IsDfpPack) # <<>> THEN Head(SelectSeq(packs, IsDfpPack))
  ELSE IF packs # <<>> THEN Head(packs)
  ELSE NoPack

\* if (device || packCandidate)
GivesTarget(file) ==
  file.parses /\ (Trim(file.device) # <<>> \/ file.packs # <<>>)

TargetOf(files) ==
  IF files = <<>> THEN NoTarget
  ELSE [found |-> TRUE, device |-> Trim(Head(files).device),
        pack |-> PackCandidate(Head(files).packs)]

\* detectMplabTarget(folder): the first descriptor, in the sorted order of the
\* file names, that gives a device or a pack; null (found = FALSE) otherwise.
detectMplabTarget(projectFiles) == TargetOf(SelectSeq(projectFiles, GivesTarget))

\* An installed pack directory under the vendor directory: its name, whether
\* it is a directory, and its entries with whether each is a directory.
Installed(packName, isDirectory, versions) ==
  [packName |-> packName, isDirectory |-> isDirectory, versions |-> versions]

VersionDir(version, isDirectory) ==
  [version |-> version, isDirectory |-> isDirectory]

\* The entries defaultDfpPath compares, in the order of its two loops.
IsDfpDirectory(pack) ==
  EndsWithText(toUpperCase(pack.packName), <<"_", "D", "F", "P">>) /\ pack.isDirectory

IsVersionDirectory(entry) == entry.isDirectory

VersionsOfPack(pack) ==
  [k \in DOMAIN SelectSeq(pack.versions, IsVersionDirectory) |->
     [packName |-> pack.packName,
      version |-> SelectSeq(pack.versions, IsVersionDirectory)[k].version]]

RECURSIVE VersionEntries(_)
VersionEntries(packs) ==
  IF packs = <<>> THEN <<>>
  ELSE VersionsOfPack(Head(packs)) \o VersionEntries(Tail(packs))

\* packNames.sort((a, b) => a.localeCompare(b)) on the listing.
NameRank(packs, i) ==
  Cardinality({j \in DOMAIN packs :
                 TextLocaleCompare(packs[j].packName, packs[i].packName) < 0})

SortedByName(packs) ==
  [k \in DOMAIN packs |->
     packs[CHOOSE i \in DOMAIN packs : NameRank(packs, i) = k - 1]]

NoBestMatch == [packName |-> <<>>, version |-> <<>>]

\* !bestMatch || compareVersionLabels(...) > 0 || (... === 0 && packName
\* .localeCompare(bestMatch.packName) < 0)
ReplacesBest(entry, bestMatch) ==
  \/ bestMatch = NoBestMatch
  \/ compareVersionLabels(entry.version, bestMatch.version) > 0
  \/ /\ compareVersionLabels(entry.version, bestMatch.version) = 0
     /\ TextLocaleCompare(entry.packName, bestMatch.packName) < 0

RECURSIVE BestMatch(_, _)
BestMatch(entries, bestMatch) ==
  IF entries = <<>> THEN bestMatch
  ELSE IF ReplacesBest(Head(entries), bestMatch)
       THEN BestMatch(Tail(entries), Head(entries))
       ELSE BestMatch(Tail(entries), bestMatch)

PackRootPath(vendor, name, version) ==
  <<HomeDir, PacksDir, vendor, name, version>>

RootOfMatch(bestMatch) ==
  IF bestMatch = NoBestMatch THEN <<>>
  ELSE PackRootPath(DEFAULT_PACK_VENDOR, bestMatch.packName, bestMatch.version)

defaultDfpPath(installed) ==
  RootOfMatch(BestMatch(VersionEntries(SelectSeq(SortedByName(installed),
                                                 IsDfpDirectory)),
                        NoBestMatch))

\* A resolution that passes over the configured path: a mutant.
resolvePackRootDetectedFirst(configuredPath, detected, installed) ==
  IF detected.found /\ detected.pack.name # <<>> /\ detected.pack.version # <<>>
  THEN PackRootPath(detected.pack.vendor, detected.pack.name,
                    detected.pack.version)
  ELSE IF configuredPath # <<>> THEN <<configuredPath>>
  ELSE defaultDfpPath(installed)

resolvePackRoot(configuredPath, detected, installed) ==
  IF configuredPath # <<>> THEN <<configuredPath>>
  ELSE IF detected.found /\ detected.pack.name # <<>>
          /\ detected.pack.version # <<>>
  THEN PackRootPath(detected.pack.vendor, detected.pack.name,
                    detected.pack.version)
  ELSE defaultDfpPath(installed)

\* /\.atdf$/i.test(name)
IsAtdfName(name) == EndsWithText(toLowerCase(name), <<".", "a", "t", "d", "f">>)

\* The comparison of sortBySpecificity: by length, then by localeCompare.
MoreSpecific(a, b) ==
  Len(a) < Len(b) \/ (Len(a) = Len(b) /\ TextLocaleCompare(a, b) < 0)

\* sortBySpecificity(names)[0]
MostSpecific(names) ==
  CHOOSE a \in Range(names) : \A b \in Range(names) : a = b \/ MoreSpecific(a, b)

\* names[0].replace(/\.atdf$/i, '')
WithoutAtdf(name) == SubSeq(name, 1, Len(name) - 5)

\* listDirSafe(path.join(packRoot, 'atdf')): the listing the file system
\* holds for the pack root, none for a directory that cannot be read.
ListAtdfDir(atdf, packRoot) ==
  IF \E i \in DOMAIN atdf : atdf[i].root = packRoot
  THEN atdf[CHOOSE i \in DOMAIN atdf : atdf[i].root = packRoot].names
  ELSE <<>>

DeviceOfNames(names) ==
  IF names = <<>> THEN <<>> ELSE WithoutAtdf(MostSpecific(names))

detectDeviceFromPack(atdf, packRoot) ==
  IF packRoot = <<>> THEN <<>>
  ELSE DeviceOfNames(SelectSeq(ListAtdfDir(atdf, packRoot), IsAtdfName))

\* inferDeviceFromWorkspaceText(scope) on a workspace.
inferDeviceFromWorkspaceText(workspace) ==
  InferredDevice(FindFiles(workspace.fileCount, ScanLimit(workspace.configured)),
                 FoundTexts(WithOpenDocument(workspace.placed, workspace.open),
                            FindFiles(workspace.fileCount,
                                      ScanLimit(workspace.configured))))

\* normalizeDeviceForLookup(deviceName)
normalizeDeviceForLookup(deviceName) == toLowerCase(Trim(deviceName))

\* configuredDevice || (detected && detected.device) || '', and a mutant
\* that takes the device of the descriptor first.
FirstDeviceDetectedFirst(configuredDevice, detected) ==
  IF detected.found /\ detected.device # <<>> THEN detected.device
  ELSE configuredDevice

FirstDevice(configuredDevice, detected) ==
  IF configuredDevice # <<>> THEN configuredDevice
  ELSE IF detected.found THEN detected.device
  ELSE <<>>

\* The configurations, project descriptors, installed packs and atdf
\* directories resolveIndexFiles is followed on.
ConfiguredDevices == {<<>>, <<" ">>, <<" ", "A", "V", "R", "1", "2", "8", "D", "A", "3", "2">>}
ConfiguredPaths == {<<>>, <<"/", "d", "f", "p", " ">>}

TinyPack == Pack(DEFAULT_PACK_VENDOR, <<"A", "T", "t", "i", "n", "y", "_", "D", "F", "P">>, <<"3", ".", "1", ".", "2", "6", "0">>)
MegaPack == Pack(<<"A", "t", "m", "e", "l">>, <<"A", "T", "m", "e", "g", "a", "_", "D", "F", "P">>, <<"3", ".", "0", ".", "1", "5", "8">>)
ToolPack == Pack(DEFAULT_PACK_VENDOR, <<"t", "o", "o", "l", "s">>, <<"1", ".", "0">>)
UnversionedPack == Pack(DEFAULT_PACK_VENDOR, <<"A", "T", "m", "e", "g", "a", "_", "D", "F", "P">>, <<>>)

ProjectFileLists ==
  { <<>>,
    <<ProjectFile(FALSE, <<"A", "T", "m", "e", "g", "a", "8">>, <<>>), ProjectFile(TRUE, <<"A", "T", "t", "i", "n", "y", "8", "5", " ">>, <<>>)>>,
    <<ProjectFile(TRUE, <<>>, <<TinyPack>>)>>,
    <<ProjectFile(TRUE, <<>>, <<>>),
      ProjectFile(TRUE, <<"A", "T", "m", "e", "g", "a", "3", "2", "8", "P">>, <<ToolPack, MegaPack>>)>>,
    <<ProjectFile(TRUE, <<>>, <<UnversionedPack>>)>> }

InstalledLists ==
  { <<>>,
    <<Installed(<<"t", "o", "o", "l", "s">>, TRUE, <<VersionDir(<<"9", ".", "0">>, TRUE)>>),
      Installed(<<"A", "T", "t", "i", "n", "y", "_", "D", "F", "P">>, TRUE,
                <<VersionDir(<<"2", ".", "3", ".", "1", "0">>, TRUE), VersionDir(<<"3", ".", "0">>, FALSE)>>),
      Installed(<<"A", "T", "m", "e", "g", "a", "_", "D", "F", "P">>, TRUE,
                <<VersionDir(<<"2", ".", "3", ".", "9">>, TRUE), VersionDir(<<"2", ".", "3", ".", "1", "0">>, TRUE)>>)>> }

AtdfDir(root, names) == [root |-> root, names |-> names]

AtdfLists ==
  { <<>>,
    <<AtdfDir(<<<<"/", "d", "f", "p">>>>, <<<<"A", "T", "m", "e", "g", "a", "4", "8", "0", "9", ".", "a", "t", "d", "f">>, <<"r", "e", "a", "d", "m", "e", ".", "t", "x", "t">>, <<"A", "T", "t", "i", "n", "y", "8", "4", ".", "A", "T", "D", "F">>>>),
      AtdfDir(PackRootPath(DEFAULT_PACK_VENDOR, <<"A", "T", "m", "e", "g", "a", "_", "D", "F", "P">>, <<"2", ".", "3", ".", "1", "0">>),
              <<<<"A", "T", "m", "e", "g", "a", "3", "2", "8", "P", ".", "a", "t", "d", "f">>, <<"A", "T", "m", "e", "g", "a", "3", "2", "8", ".", "a", "t", "d", "f">>>>),
      AtdfDir(PackRootPath(DEFAULT_PACK_VENDOR, <<"A", "T", "t", "i", "n", "y", "_", "D", "F", "P">>, <<"3", ".", "1", ".", "2", "6", "0">>),
              <<<<"A", "T", "t", "i", "n", "y", "8", "5", ".", "a", "t", "d", "f">>, <<"A", "T", "t", "i", "n", "y", "8", "4", ".", "a", "t", "d", "f">>>>)>> }

SearchedWorkspaces ==
  { [configured |-> NotANumber, fileCount |-> 0, placed |-> <<>>,
     open |-> NoOpenText],
    [configured |-> NotANumber, fileCount |-> 1,
     placed |-> <<Placed(1, <<Construct("include", <<"t", "n", "1", "3">>)>>)>>,
     open |-> NoOpenText] }

\* resolveIndexFiles up to its await of detectMplabTarget: the configuration
\* is read, and the descriptors when auto-detection is enabled.
ResolveDetect ==
  /\ args.function = "resolveIndexFiles"
  /\ result = NoResult
  /\ result' = [kind |-> "resolving", step |-> "packRoot",
                configuredPath |-> Trim(args.dfpPath),
                configuredDevice |-> Trim(args.device),
                detected |-> IF args.autoDetect
                             THEN detectMplabTarget(args.projectFiles)
                             ELSE NoTarget,
                packRoot |-> <<>>, device |-> <<>>,
                called |-> IF args.autoDetect THEN {"detectMplabTarget"}
                           ELSE {}]
  /\ UNCHANGED <<cacheVars, buildVars, queryVars, args, editorDocs,
                 localSymbolCache, localData>>

\* The pack root is resolved and the device taken from the configuration or
\* the descriptor.
ResolvePackRoot ==
  /\ result.kind = "resolving" /\ result.step = "packRoot"
  /\ \E device \in {FirstDevice(result.configuredDevice, result.detected)} :
       result' = [result EXCEPT
                    !.packRoot = resolvePackRoot(result.configuredPath,
                                                 result.detected,
                                                 args.installed),
                    !.device = device,
                    !.called = @ \cup {"resolvePackRoot"},
                    !.step = IF device = <<>> THEN "infer" ELSE "files"]
  /\ UNCHANGED <<cacheVars, buildVars, queryVars, args, editorDocs,
                 localSymbolCache, localData>>

\* if (!device) device = await inferDeviceFromWorkspaceText(scope)
ResolveInfer ==
  /\ result.kind = "resolving" /\ result.step = "infer"
  /\ \E device \in {inferDeviceFromWorkspaceText(args.workspace)} :
       result' = [result EXCEPT
                    !.device = device,
                    !.called = @ \cup {"inferDeviceFromWorkspaceText"},
                    !.step = IF device = <<>> THEN "fromPack" ELSE "files"]
  /\ UNCHANGED <<cacheVars, buildVars, queryVars, args, editorDocs,
                 localSymbolCache, localData>>

\* if (!device) device = await detectDeviceFromPack(packRoot)
ResolveFromPack ==
  /\ result.kind = "resolving" /\ result.step = "fromPack"
  /\ result' = [result EXCEPT
                  !.device = detectDeviceFromPack(args.atdf, result.packRoot),
                  !.called = @ \cup {"detectDeviceFromPack"},
                  !.step = "files"]
  /\ UNCHANGED <<cacheVars, buildVars, queryVars, args, editorDocs,
                 localSymbolCache, localData>>

\* The rest of resolveIndexFiles: the pack root, the device and its name
\* for lookup are returned (the files of the pack are not followed here).
ResolveReturn ==
  /\ result.kind = "resolving" /\ result.step = "files"
  /\ result' = [kind |-> "resolved", packRoot |-> result.packRoot,
                device |-> result.device,
                deviceLowerName |-> normalizeDeviceForLookup(result.device),
                called |-> result.called]
  /\ UNCHANGED <<cacheVars, buildVars, queryVars, args, editorDocs,
                 localSymbolCache, localData>>

ResolveNext ==
  \/ ResolveDetect
  \/ ResolvePackRoot
  \/ ResolveInfer
  \/ ResolveFromPack
  \/ ResolveReturn

\* The documents of the editor: for each uri, whether a TextDocument is open,
\* its version and its lines.  A document that is opened is a new object at
\* version 1; every edit adds 1 to the version.
EditedUris == {MainUri, LibUri}

ClosedDocument == [open |-> FALSE, version |-> 0, lines |-> <<>>]

EditedTexts == {<<XLabelLine, EquELine>>, <<FooLabelLine, XLabelLine, FooLoopLine>>}

\* No entry of the Map localSymbolCache for a key.
NoCached == [version |-> -1, symbols |-> <<>>, entries |-> <<>>]

\* The value getLocalSymbolData stores and returns after a scan.
ScannedValue(version, parsed) ==
  [version |-> version, symbols |-> parsed.symbols, entries |-> parsed.entries]

\* if (cached && cached.version === document.version) return cached; else
\* the parsed text at the version of the document.
CachedOrScanned(cached, document) ==
  IF cached # NoCached /\ cached.version = document.version THEN cached
  ELSE ScannedValue(document.version, parseLocalSymbolsFromLines(document.lines))

\* getLocalSymbolData(document) for the document object of a uri: the Map
\* after the call and what the call returned, with the version the Map held
\* before.
getLocalSymbolData(uri, document) ==
  /\ localSymbolCache' =
       [localSymbolCache EXCEPT
          ![uri] = CachedOrScanned(localSymbolCache[uri], document)]
  /\ localData' = [kind |-> "data", uri |-> uri, document |-> document,
                   stored |-> localSymbolCache[uri].version,
                   scanned |-> localSymbolCache[uri]
                                 # CachedOrScanned(localSymbolCache[uri],
                                                   document),
                   value |-> CachedOrScanned(localSymbolCache[uri], document)]

\* The editor opens a document.
OpenDocument(uri, text) ==
  /\ ~editorDocs[uri].open
  /\ editorDocs' = [editorDocs EXCEPT
                      ![uri] = [open |-> TRUE, version |-> 1, lines |-> text]]
  /\ localData' = NoLocalData
  /\ UNCHANGED <<cacheVars, buildVars, queryVars, args, result,
                 localSymbolCache>>

\* The user edits an open document.
EditDocument(uri, text) ==
  /\ editorDocs[uri].open
  /\ editorDocs[uri].version < MaxVersion
  /\ text # editorDocs[uri].lines
  /\ editorDocs' = [editorDocs EXCEPT
                      ![uri] = [open |-> TRUE, version |-> @.version + 1,
                                lines |-> text]]
  /\ localData' = NoLocalData
  /\ UNCHANGED <<cacheVars, buildVars, queryVars, args, result,
                 localSymbolCache>>

\* A provider (hover, definition, completion, document symbols) is called
\* for an open document and reads its local symbols before any await.
ProviderGetsLocalSymbols(uri) ==
  /\ editorDocs[uri].open
  /\ getLocalSymbolData(uri, [version |-> editorDocs[uri].version,
                              lines |-> editorDocs[uri].lines])
  /\ UNCHANGED <<cacheVars, buildVars, queryVars, args, result, editorDocs>>

\* onDidCloseTextDocument: the entry of the document is deleted.  A lookup
\* command that holds the document keeps the object as it was.
CloseDocument(uri) ==
  /\ editorDocs[uri].open
  /\ editorDocs' = [editorDocs EXCEPT ![uri] = ClosedDocument]
  /\ localSymbolCache' = [localSymbolCache EXCEPT ![uri] = NoCached]
  /\ args' = IF args # NoArgs /\ args.uri = uri /\ args.live
             THEN [args EXCEPT !.live = FALSE,
                               !.version = editorDocs[uri].version,
                               !.lines = editorDocs[uri].lines]
             ELSE args
  /\ localData' = NoLocalData
  /\ UNCHANGED <<cacheVars, buildVars, queryVars, result>>

\* runLookupCommand up to its await of showInputBox: the active editor is
\* kept.
StartLookup(uri) ==
  /\ args = NoArgs
  /\ editorDocs[uri].open
  /\ args' = [function |-> "runLookupCommand", uri |-> uri, live |-> TRUE,
              version |-> 0, lines |-> <<>>]
  /\ localData' = NoLocalData
  /\ UNCHANGED <<cacheVars, buildVars, queryVars, result, editorDocs,
                 localSymbolCache>>

\* The document object the command holds: the open document while it is
\* open, the object as it was closed afterwards.
HeldDocument ==
  IF args.live
  THEN [version |-> editorDocs[args.uri].version,
        lines |-> editorDocs[args.uri].lines]
  ELSE [version |-> args.version, lines |-> args.lines]

\* runLookupCommand after the input box: getLocalSymbols(editor.document).
ResumeLookup ==
  /\ args # NoArgs
  /\ args.function = "runLookupCommand"
  /\ getLocalSymbolData(args.uri, HeldDocument)
  /\ args' = NoArgs
  /\ UNCHANGED <<cacheVars, buildVars, queryVars, result, editorDocs>>

LocalNext ==
  \/ \E u \in EditedUris, t \in EditedTexts : OpenDocument(u, t)
  \/ \E u \in EditedUris, t \in EditedTexts : EditDocument(u, t)
  \/ \E u \in EditedUris : ProviderGetsLocalSymbols(u)
  \/ \E u \in EditedUris : CloseDocument(u)
  \/ \E u \in EditedUris : StartLookup(u)
  \/ ResumeLookup


\* The extension before activate: the maps are empty and no build runs. The
\* calls of getDfpIndex are recorded.
Init ==
  /\ activated = FALSE
  /\ workspaceFolders \in SUBSET Folders
  /\ cachedIndexByScope = [k \in ScopeKeys |-> 0]
  /\ indexBuildPromiseByScope = [k \in ScopeKeys |-> 0]
  /\ builds = <<>>
  /\ calls = {}
  /\ failedSettled = [k \in ScopeKeys |-> FALSE]
  /\ lastEvent = NoEvent
  /\ track = "calls"
  /\ packFiles = <<>>
  /\ buildPc = "idle"
  /\ fileIdx = 1
  /\ symbols = EmptySymbolMap
  /\ symbolList = <<>>
  /\ scannedFiles = <<>>
  /\ builtIndex = NoIndex
  /\ previousIndex = NoIndex
  /\ buildCount = 0
  /\ workspaceFiles = <<>>
  /\ openDocuments = <<>>
  /\ packContent = NoPackContent
  /\ query = NoQuery
  /\ qPc = "idle"
  /\ qTodo = <<>>
  /\ qResults = <<>>
  /\ qAwait = NoAwait
  /\ cancelled = FALSE
  /\ qOutcome = NoOutcome
  /\ args = NoArgs
  /\ result = NoResult
  /\ editorDocs = NoEditorDocs
  /\ localSymbolCache = NoEditorDocs
  /\ localData = NoLocalData

Next == CacheNext

\* The cache with the history of the getDfpIndex calls.
Spec == Init /\ [][Next]_vars

\* A build that has started settles: buildDfpIndex resolves or throws, and
\* the callbacks chained on it run.
BuildsSettle ==
  \A b \in 1..MaxBuilds :
    WF_vars(BuildThen(b) \/ BuildCatch(b)) /\ WF_vars(BuildFinally(b))

\* The cache where every started build settles.
SpecFair == Init /\ [][Next]_vars /\ BuildsSettle

\* As Init, with the last handler recorded in place of the calls.
InitEvents ==
  /\ activated = FALSE
  /\ workspaceFolders \in SUBSET Folders
  /\ cachedIndexByScope = [k \in ScopeKeys |-> 0]
  /\ indexBuildPromiseByScope = [k \in ScopeKeys |-> 0]
  /\ builds = <<>>
  /\ calls = {}
  /\ failedSettled = [k \in ScopeKeys |-> FALSE]
  /\ lastEvent = NoEvent
  /\ track = "events"
  /\ packFiles = <<>>
  /\ buildPc = "idle"
  /\ fileIdx = 1
  /\ symbols = EmptySymbolMap
  /\ symbolList = <<>>
  /\ scannedFiles = <<>>
  /\ builtIndex = NoIndex
  /\ previousIndex = NoIndex
  /\ buildCount = 0
  /\ workspaceFiles = <<>>
  /\ openDocuments = <<>>
  /\ packContent = NoPackContent
  /\ query = NoQuery
  /\ qPc = "idle"
  /\ qTodo = <<>>
  /\ qResults = <<>>
  /\ qAwait = NoAwait
  /\ cancelled = FALSE
  /\ qOutcome = NoOutcome
  /\ args = NoArgs
  /\ result = NoResult
  /\ editorDocs = NoEditorDocs
  /\ localSymbolCache = NoEditorDocs
  /\ localData = NoLocalData

\* The cache with the history of the last handler.
SpecEvents == InitEvents /\ [][Next]_vars

\* The pack files resolveIndexFiles yields, before the first build; the
\* cache is left alone.
InitBuild ==
  /\ activated = FALSE
  /\ workspaceFolders = {}
  /\ cachedIndexByScope = [k \in ScopeKeys |-> 0]
  /\ indexBuildPromiseByScope = [k \in ScopeKeys |-> 0]
  /\ builds = <<>>
  /\ calls = {}
  /\ failedSettled = [k \in ScopeKeys |-> FALSE]
  /\ lastEvent = NoEvent
  /\ track = "none"
  /\ packFiles \in PackFileLists
  /\ buildPc = "idle"
  /\ fileIdx = 1
  /\ symbols = EmptySymbolMap
  /\ symbolList = <<>>
  /\ scannedFiles = <<>>
  /\ builtIndex = NoIndex
  /\ previousIndex = NoIndex
  /\ buildCount = 0
  /\ workspaceFiles = <<>>
  /\ openDocuments = <<>>
  /\ packContent = NoPackContent
  /\ query = NoQuery
  /\ qPc = "idle"
  /\ qTodo = <<>>
  /\ qResults = <<>>
  /\ qAwait = NoAwait
  /\ cancelled = FALSE
  /\ qOutcome = NoOutcome
  /\ args = NoArgs
  /\ result = NoResult
  /\ editorDocs = NoEditorDocs
  /\ localSymbolCache = NoEditorDocs
  /\ localData = NoLocalData

\* The builds of the pack index over the pack files.
SpecBuild == InitBuild /\ [][BuildNext]_vars

\* A workspace with its files and open documents, and a target with its
\* pack content, before activate.
InitQuery ==
  /\ activated = FALSE
  /\ workspaceFolders \in {{}, QueryFolders}
  /\ cachedIndexByScope = [k \in ScopeKeys |-> 0]
  /\ indexBuildPromiseByScope = [k \in ScopeKeys |-> 0]
  /\ builds = <<>>
  /\ calls = {}
  /\ failedSettled = [k \in ScopeKeys |-> FALSE]
  /\ lastEvent = NoEvent
  /\ track = "none"
  /\ packFiles = <<>>
  /\ buildPc = "idle"
  /\ fileIdx = 1
  /\ symbols = EmptySymbolMap
  /\ symbolList = <<>>
  /\ scannedFiles = <<>>
  /\ builtIndex = NoIndex
  /\ previousIndex = NoIndex
  /\ buildCount = 0
  /\ \E w \in Workspaces :
       workspaceFiles = w.files /\ openDocuments = w.open
  /\ packContent \in PackContents
  /\ query = NoQuery
  /\ qPc = "idle"
  /\ qTodo = <<>>
  /\ qResults = <<>>
  /\ qAwait = NoAwait
  /\ cancelled = FALSE
  /\ qOutcome = NoOutcome
  /\ args = NoArgs
  /\ result = NoResult
  /\ editorDocs = NoEditorDocs
  /\ localSymbolCache = NoEditorDocs
  /\ localData = NoLocalData

\* The providers and the commands over the pack index cache.
SpecQuery == InitQuery /\ [][QueryNext]_vars

\* Calls of compareVersionLabels on every pair of version labels.
InitVersion ==
  /\ activated = FALSE
  /\ workspaceFolders = {}
  /\ cachedIndexByScope = [k \in ScopeKeys |-> 0]
  /\ indexBuildPromiseByScope = [k \in ScopeKeys |-> 0]
  /\ builds = <<>>
  /\ calls = {}
  /\ failedSettled = [k \in ScopeKeys |-> FALSE]
  /\ lastEvent = NoEvent
  /\ track = "none"
  /\ packFiles = <<>>
  /\ buildPc = "idle"
  /\ fileIdx = 1
  /\ symbols = EmptySymbolMap
  /\ symbolList = <<>>
  /\ scannedFiles = <<>>
  /\ builtIndex = NoIndex
  /\ previousIndex = NoIndex
  /\ buildCount = 0
  /\ workspaceFiles = <<>>
  /\ openDocuments = <<>>
  /\ packContent = NoPackContent
  /\ query = NoQuery
  /\ qPc = "idle"
  /\ qTodo = <<>>
  /\ qResults = <<>>
  /\ qAwait = NoAwait
  /\ cancelled = FALSE
  /\ qOutcome = NoOutcome
  /\ \E l \in Versions, r \in Versions :
       args = [function |-> "compareVersionLabels",
               leftVersion |-> l, rightVersion |-> r]
  /\ result = NoResult
  /\ editorDocs = NoEditorDocs
  /\ localSymbolCache = NoEditorDocs
  /\ localData = NoLocalData

SpecVersion == InitVersion /\ [][VersionNext]_vars

\* Calls of inferDeviceFromWorkspaceText on the workspaces searched.
InitInfer ==
  /\ activated = FALSE
  /\ workspaceFolders = {}
  /\ cachedIndexByScope = [k \in ScopeKeys |-> 0]
  /\ indexBuildPromiseByScope = [k \in ScopeKeys |-> 0]
  /\ builds = <<>>
  /\ calls = {}
  /\ failedSettled = [k \in ScopeKeys |-> FALSE]
  /\ lastEvent = NoEvent
  /\ track = "none"
  /\ packFiles = <<>>
  /\ buildPc = "idle"
  /\ fileIdx = 1
  /\ symbols = EmptySymbolMap
  /\ symbolList = <<>>
  /\ scannedFiles = <<>>
  /\ builtIndex = NoIndex
  /\ previousIndex = NoIndex
  /\ buildCount = 0
  /\ workspaceFiles = <<>>
  /\ openDocuments = <<>>
  /\ packContent = NoPackContent
  /\ query = NoQuery
  /\ qPc = "idle"
  /\ qTodo = <<>>
  /\ qResults = <<>>
  /\ qAwait = NoAwait
  /\ cancelled = FALSE
  /\ qOutcome = NoOutcome
  /\ \E c \in ScanFileValues, n \in FileCounts, p \in DeviceTexts,
        o \in OpenTexts :
       args = [function |-> "inferDeviceFromWorkspaceText", configured |-> c,
               fileCount |-> n, placed |-> p, open |-> o]
  /\ result = NoResult
  /\ editorDocs = NoEditorDocs
  /\ localSymbolCache = NoEditorDocs
  /\ localData = NoLocalData

SpecInfer == InitInfer /\ [][InferNext]_vars

\* Calls of resolveIndexFiles on the configurations and file systems.
InitResolve ==
  /\ activated = FALSE
  /\ workspaceFolders = {}
  /\ cachedIndexByScope = [k \in ScopeKeys |-> 0]
  /\ indexBuildPromiseByScope = [k \in ScopeKeys |-> 0]
  /\ builds = <<>>
  /\ calls = {}
  /\ failedSettled = [k \in ScopeKeys |-> FALSE]
  /\ lastEvent = NoEvent
  /\ track = "none"
  /\ packFiles = <<>>
  /\ buildPc = "idle"
  /\ fileIdx = 1
  /\ symbols = EmptySymbolMap
  /\ symbolList = <<>>
  /\ scannedFiles = <<>>
  /\ builtIndex = NoIndex
  /\ previousIndex = NoIndex
  /\ buildCount = 0
  /\ workspaceFiles = <<>>
  /\ openDocuments = <<>>
  /\ packContent = NoPackContent
  /\ query = NoQuery
  /\ qPc = "idle"
  /\ qTodo = <<>>
  /\ qResults = <<>>
  /\ qAwait = NoAwait
  /\ cancelled = FALSE
  /\ qOutcome = NoOutcome
  /\ \E d \in ConfiguredDevices, p \in ConfiguredPaths, a \in BOOLEAN,
        f \in ProjectFileLists, i \in InstalledLists, t \in AtdfLists,
        w \in SearchedWorkspaces :
       args = [function |-> "resolveIndexFiles", device |-> d, dfpPath |-> p,
               autoDetect |-> a, projectFiles |-> f, installed |-> i,
               atdf |-> t, workspace |-> w]
  /\ result = NoResult
  /\ editorDocs = NoEditorDocs
  /\ localSymbolCache = NoEditorDocs
  /\ localData = NoLocalData

SpecResolve == InitResolve /\ [][ResolveNext]_vars

\* The documents of the editor and the cache of their local symbols.
InitLocal ==
  /\ activated = FALSE
  /\ workspaceFolders = {}
  /\ cachedIndexByScope = [k \in ScopeKeys |-> 0]
  /\ indexBuildPromiseByScope = [k \in ScopeKeys |-> 0]
  /\ builds = <<>>
  /\ calls = {}
  /\ failedSettled = [k \in ScopeKeys |-> FALSE]
  /\ lastEvent = NoEvent
  /\ track = "none"
  /\ packFiles = <<>>
  /\ buildPc = "idle"
  /\ fileIdx = 1
  /\ symbols = EmptySymbolMap
  /\ symbolList = <<>>
  /\ scannedFiles = <<>>
  /\ builtIndex = NoIndex
  /\ previousIndex = NoIndex
  /\ buildCount = 0
  /\ workspaceFiles = <<>>
  /\ openDocuments = <<>>
  /\ packContent = NoPackContent
  /\ query = NoQuery
  /\ qPc = "idle"
  /\ qTodo = <<>>
  /\ qResults = <<>>
  /\ qAwait = NoAwait
  /\ cancelled = FALSE
  /\ qOutcome = NoOutcome
  /\ args = NoArgs
  /\ result = NoResult
  /\ editorDocs = [u \in EditedUris |-> ClosedDocument]
  /\ localSymbolCache = [u \in EditedUris |-> NoCached]
  /\ localData = NoLocalData

SpecLocal == InitLocal /\ [][LocalNext]_vars

(***************************************************************************)
(* What the callers of getDfpIndex receive.                                *)
(***************************************************************************)

\* What a recorded call has received by now: the cached index, or the
\* settlement of the promise it awaits.
Received(call) ==
  IF call.kind = "cached" THEN [status |-> "index", index |-> call.index]
  ELSE LET b == builds[call.build]
       IN IF b.state = "fulfilled" THEN [status |-> "index", index |-> b.value]
          ELSE IF b.state = "rejected" THEN [status |-> "failure", index |-> 0]
          ELSE [status |-> "pending", index |-> 0]

RunningBuilds(scopeKey) ==
  {i \in DOMAIN builds :
     builds[i].scope = scopeKey /\ builds[i].state = "running"}

\* C1: for every scope at most one index build is running at any time.
AtMostOneBuildPerScope ==
  \A k \in ScopeKeys : Cardinality(RunningBuilds(k)) <= 1

\* C2: when an unforced call started a build, an unforced call made before
\* that build completes, with no invalidation of the scope since the build
\* started, joins that build: one scan, and both callers get the same index.
SingleScanForConcurrentCalls ==
  \A i \in calls : \A j \in calls :
    (/\ i.kind = "started" /\ ~i.force /\ ~j.force
     /\ i.build \in j.joinable)
      => (j.kind = "joined" /\ j.build = i.build)

\* C3: a call made after a save in its scope never returns an index whose
\* build started before that save.
FreshIndexAfterSave ==
  \A c \in calls : c.servedPreSave => Received(c).status # "index"

\* C4: every caller awaiting a build that failed receives the failure once
\* the build has settled, and no cache entry holds the result of a failed
\* build.
FailureReachesEveryCaller ==
  /\ \A c \in calls :
       (c.kind # "cached" /\ builds[c.build].failed
          /\ Settled(builds[c.build]))
         => Received(c).status = "failure"
  /\ \A b \in DOMAIN builds :
       builds[b].failed => \A k \in ScopeKeys : cachedIndexByScope[k] # b

\* Two callers have received the failure of one build.
FailureReachesEveryCallerWitness ==
  \E c \in calls : \E d \in calls :
    /\ c.kind = "started" /\ d.kind = "joined" /\ d.build = c.build
    /\ builds[c.build].failed
    /\ Received(c).status = "failure" /\ Received(d).status = "failure"

\* C5: the first getDfpIndex call of a scope after a build of that scope
\* failed and settled starts a new build.
RetryAfterFailure ==
  \A c \in calls : c.afterFail => c.kind = "started"

\* C8: a forced call starts a build of its own and returns the index of that
\* build, never the index that was cached before the call.
ForceDiscardsCache ==
  \A c \in calls :
    c.force =>
      /\ c.kind = "started"
      /\ Received(c).status = "index" =>
           (Received(c).index = c.build /\ Received(c).index # c.cachedBefore)

\* A forced call made over a cache entry has received its index.
ForceDiscardsCacheWitness ==
  \E c \in calls :
    c.force /\ c.cachedBefore # 0 /\ Received(c).status = "index"

(***************************************************************************)
(* Invalidation events and scope isolation.                                *)
(***************************************************************************)

\* The file names that name a project descriptor or an assembly-family file.
TriggerNames == {"main.S", "app.mplab.json"}

FileEvents == {"save", "create", "delete", "rename"}

\* The scope a uri of the event belongs to.
ScopeOfUri(uri) ==
  IF uri.folder \in workspaceFolders THEN FolderKey(uri.folder)
  ELSE INDEX_SCOPE_GLOBAL

\* C6 as stated: after a configuration change of the namespace or a change of
\* the workspace folders no scope has a cache entry; after the creation,
\* deletion, rename or save of a project-descriptor or assembly-family file
\* the scope of that file has none; an event on files of other kinds only
\* leaves the cache unchanged.
InvalidationByFileKind ==
  [][/\ lastEvent'.type \in {"config", "folders"}
          => \A k \in ScopeKeys : cachedIndexByScope'[k] = 0
     /\ lastEvent'.type \in FileEvents
          => /\ \A i \in DOMAIN lastEvent'.files :
                  lastEvent'.files[i].name \in TriggerNames
                    => cachedIndexByScope'[ScopeOfUri(lastEvent'.files[i])] = 0
             /\ (\A i \in DOMAIN lastEvent'.files :
                   lastEvent'.files[i].name \notin TriggerNames)
                  => cachedIndexByScope' = cachedIndexByScope
    ]_vars

\* C6 amended: the save of a document whose language id is a supported
\* assembly language is an invalidation trigger too, whatever its file name;
\* the other events on files of other kinds leave the cache unchanged.
InvalidationTriggers ==
  [][/\ lastEvent'.type \in {"config", "folders"}
          => \A k \in ScopeKeys : cachedIndexByScope'[k] = 0
     /\ lastEvent'.type \in FileEvents
          => /\ \A i \in DOMAIN lastEvent'.files :
                  (\/ lastEvent'.files[i].name \in TriggerNames
                   \/ lastEvent'.languageId \in SUPPORTED_LANGUAGE_IDS)
                    => cachedIndexByScope'[ScopeOfUri(lastEvent'.files[i])] = 0
             /\ (/\ \A i \in DOMAIN lastEvent'.files :
                      lastEvent'.files[i].name \notin TriggerNames
                 /\ lastEvent'.languageId \notin SUPPORTED_LANGUAGE_IDS)
                  => cachedIndexByScope' = cachedIndexByScope
    ]_vars

\* The save of an assembly-language document with a file name of another
\* kind has removed the cache entry of its scope.
InvalidationTriggersWitness ==
  /\ lastEvent.type = "save"
  /\ lastEvent.languageId \in SUPPORTED_LANGUAGE_IDS
  /\ lastEvent.files[1].name \notin TriggerNames
  /\ lastEvent.hadCache
  /\ cachedIndexByScope[ScopeOfUri(lastEvent.files[1])] = 0

ScopedEvents ==
  FileEvents \cup {"activate", "getIndex", "forceGetIndex", "then", "catch",
                   "finally"}

\* C7: an invalidation or a forced rebuild of some scopes, and the handlers
\* of a build of a scope, leave the cache entry and the in-flight entry of
\* every other scope unchanged.
ScopesIsolated ==
  [][lastEvent'.type \in ScopedEvents
       => \A k \in ScopeKeys \ lastEvent'.scopes :
            /\ cachedIndexByScope'[k] = cachedIndexByScope[k]
            /\ indexBuildPromiseByScope'[k] = indexBuildPromiseByScope[k]
    ]_vars

\* One scope has just lost its cache entry while another scope keeps a
\* cache entry and an in-flight build.
ScopesIsolatedWitness ==
  /\ lastEvent.type \in FileEvents \cup {"forceGetIndex"}
  /\ lastEvent.hadCache
  /\ \E k \in ScopeKeys \ lastEvent.scopes :
       cachedIndexByScope[k] # 0

(***************************************************************************)
(* The built pack index.                                                   *)
(***************************************************************************)

\* C9: the index of a build equals the index of the build before it over the
\* same files: the same symbol map and the same name list.
RebuildIdempotent ==
  buildCount >= 2 =>
    /\ builtIndex.symbols = previousIndex.symbols
    /\ builtIndex.symbolList = previousIndex.symbolList

\* A second build has returned an index that holds symbols.
RebuildIdempotentWitness ==
  /\ buildCount >= 2
  /\ buildPc = "done"
  /\ \E n \in Names : Len(builtIndex.symbols[n]) \in 1..(MaxOccurrences - 1)

\* The occurrences of a name in the pack files: file position, line number,
\* position among the items of the line.
OccurrencesOf(name) ==
  {o \in (DOMAIN packFiles) \X (1..MaxLines) \X (1..4) :
     /\ packFiles[o[1]].text.found
     /\ o[2] \in DOMAIN packFiles[o[1]].text.lines
     /\ LET items == parseSymbolsFromLine(packFiles[o[1]].text.lines[o[2]],
                                          packFiles[o[1]].kind)
        IN o[3] \in DOMAIN items /\ items[o[3]].symbol = name}

\* Scan order: file order, then line order, then item order.
ScannedBefore(o, p) ==
  \/ o[1] < p[1]
  \/ o[1] = p[1] /\ o[2] < p[2]
  \/ o[1] = p[1] /\ o[2] = p[2] /\ o[3] < p[3]

\* C10: in a built index each name has at most 20 occurrences, and they are
\* the first 20 occurrences of the name in scan order.
OccurrenceCap ==
  buildCount >= 1 =>
    \A n \in Names :
      LET entries == builtIndex.symbols[n]
          all == OccurrencesOf(n)
      IN /\ Len(entries) <= 20
         /\ Len(entries) = IF Cardinality(all) < 20 THEN Cardinality(all) ELSE 20
         /\ \A k \in DOMAIN entries :
              \E o \in all :
                /\ entries[k].file = FilePaths[o[1]]
                /\ entries[k].line = o[2]
                /\ Cardinality({p \in all : ScannedBefore(p, o)}) = k - 1

\* An index was built from files that hold more than 20 occurrences of a
\* name, some of them in a second file.
OccurrenceCapWitness ==
  /\ buildCount >= 1
  /\ \E n \in Names :
       /\ Cardinality(OccurrencesOf(n)) > 20
       /\ Len(builtIndex.symbols[n]) = 20
       /\ \E k \in 1..20 : builtIndex.symbols[n][k].file = FilePaths[2]

(***************************************************************************)
(* What the providers return.                                              *)
(***************************************************************************)

\* The call of the provider of this kind has returned a result.
Returned(kind) ==
  qPc = "done" /\ query.kind = kind /\ qOutcome.status = "returned"

\* The call of the provider of this kind has ended in a failure.
Rejected(kind) ==
  qPc = "done" /\ query.kind = kind /\ qOutcome.status = "rejected"

\* The place of a band in the order of the loops of provideCompletionItems.
BandRank(band) ==
  CASE band = "local" -> 0
    [] band = "register" -> 1
    [] band = "instruction" -> 2
    [] band = "pack" -> 3

\* The items of a completion result are in the order of their bands.
InBandOrder(items) ==
  \A i \in DOMAIN items : \A j \in DOMAIN items :
    i < j => BandRank(items[i].band) <= BandRank(items[j].band)

\* C11 as stated: every item of a completion result is a local symbol, an
\* instruction mnemonic or a pack symbol, local items before mnemonic items
\* before pack items.
CompletionThreeBands ==
  Returned("completion") =>
    /\ \A i \in DOMAIN qOutcome.value :
         qOutcome.value[i].band \in {"local", "instruction", "pack"}
    /\ InBandOrder(qOutcome.value)

\* C11 amended: every item of a completion result is a local symbol of the
\* document, an AVR register name, an instruction mnemonic (only when
\* instruction completion is enabled) or a pack symbol, and the items are in
\* that order of bands.
CompletionFourBands ==
  Returned("completion") =>
    /\ \A i \in DOMAIN qOutcome.value :
         LET item == qOutcome.value[i]
         IN \/ /\ item.band = "local"
               /\ item.label \in Range(LocalNames(query.document))
            \/ /\ item.band = "register"
               /\ item.label \in Range(AVR_REGISTER_NAMES)
            \/ /\ item.band = "instruction"
               /\ query.enableInstructionCompletion
               /\ item.label \in Range(AVR_INSTRUCTION_MNEMONICS)
            \/ /\ item.band = "pack"
               /\ item.label \in Range(packContent.symbolList)
    /\ InBandOrder(qOutcome.value)

\* A completion result holds items of all four bands.
CompletionFourBandsWitness ==
  /\ Returned("completion")
  /\ \A b \in {"local", "register", "instruction", "pack"} :
       \E i \in DOMAIN qOutcome.value : qOutcome.value[i].band = b

\* C12: no two items of a completion result have names that are equal when
\* compared without case.
CompletionNamesUnique ==
  Returned("completion") =>
    \A i \in DOMAIN qOutcome.value : \A j \in DOMAIN qOutcome.value :
      completionSeenKey(qOutcome.value[i].label)
          = completionSeenKey(qOutcome.value[j].label)
        => i = j

\* C13: a completion result never holds more items than the configured
\* maxCompletionItems.
CompletionWithinCap ==
  Returned("completion") /\ query.maxItems.finite
    => Len(qOutcome.value) <= query.maxItems.value

\* The lines (from 0) of a document that define the symbol.
DefiningLines(document, symbol) ==
  {i - 1 : i \in {j \in DOMAIN document.lines :
                    LocalDefinition(document.lines[j]).symbol = symbol}}

\* The locations of the first 20 pack occurrences of the symbol.
PackLocations(symbol) ==
  [i \in 1..Min(Len(IndexHits(packContent, symbol)), 20) |->
     Location(UriFile(IndexHits(packContent, symbol)[i].file),
              Max(0, IndexHits(packContent, symbol)[i].line - 1), 0)]

\* The value of a definition result is the local definition location, when
\* the document defines the symbol, followed by the pack locations.
LocalThenPack(value, document, symbol, pack) ==
  IF DefiningLines(document, symbol) = {} THEN value = pack
  ELSE /\ value # <<>>
       /\ Head(value).uri = document.uri
       /\ Head(value).line \in DefiningLines(document, symbol)
       /\ Head(value).column = 0
       /\ Tail(value) = pack

\* C14: a definition call that has its index and is not cancelled returns
\* the local definition location, when the document defines the symbol,
\* followed by the locations of at most 20 pack occurrences: nothing for no
\* location, the location itself for one, the list in that order for more.
DefinitionLocalThenPack ==
  (Returned("definition") /\ ~cancelled /\ query.word # NoMatch) =>
    /\ LocalThenPack(qOutcome.value, query.document, query.word,
                     PackLocations(query.word))
    /\ Len(qOutcome.value) <= 21
    /\ qOutcome.shape = CASE Len(qOutcome.value) = 0 -> "none"
                          [] Len(qOutcome.value) = 1 -> "one"
                          [] OTHER -> "list"

\* A definition call has returned the local location followed by the
\* locations of 20 pack occurrences.
DefinitionLocalThenPackWitness ==
  /\ Returned("definition") /\ ~cancelled
  /\ DefiningLines(query.document, query.word) # {}
  /\ Len(IndexHits(packContent, query.word)) = 20
  /\ Len(qOutcome.value) = 21
  /\ qOutcome.shape = "list"

\* C15: with no identifier at the position, hover and definition return
\* none and references returns the empty list; none of them ends in a
\* failure, whatever the state of the index.
NoTokenNoResult ==
  (qPc = "done" /\ query.kind \in {"hover", "definition", "references"}
     /\ query.word = NoMatch) =>
    /\ qOutcome.status = "returned"
    /\ qOutcome.value = <<>>
    /\ qOutcome.shape = IF query.kind = "references" THEN "list" ELSE "none"

\* A hover call with no identifier at the position has returned while the
\* index build of its scope has failed and nothing is cached.
NoTokenNoResultWitness ==
  /\ Returned("hover") /\ query.word = NoMatch /\ ~cancelled
  /\ \E b \in DOMAIN builds :
       /\ builds[b].state = "rejected"
       /\ builds[b].scope
            = getIndexScopeForDocument(query.document, workspaceFolders)
  /\ \A k \in ScopeKeys : cachedIndexByScope[k] = 0

\* The column of the name a defining line defines: the place of the group
\* of LOCAL_LABEL_REGEX, LOCAL_EQU_REGEX or LOCAL_SET_REGEX in the line.
DefinedNameColumn(line) ==
  IF MatchLabel(line) # NoMatch THEN SkipSpace(line, 1) - 1
  ELSE SkipSpace(line, SkipSpace(line, 1) + Len(DotEqu)) - 1

\* The whole-token occurrences of a symbol in the files a references query
\* scans, as locations; without the definition occurrences when
\* declarations are excluded.
Occurrences(document, symbol, includeDeclaration) ==
  UNION {{Location(uri, i - 1, c) :
            c \in {d \in 0..Len(getTextForUri(uri)[i]) :
                     /\ TokenAt(getTextForUri(uri)[i], d, symbol)
                     /\ includeDeclaration
                          \/ LocalDefinition(getTextForUri(uri)[i]).symbol
                               # symbol
                          \/ DefinedNameColumn(getTextForUri(uri)[i]) # d}} :
           <<uri, i>> \in {<<ReferenceUris(document)[k], j>> :
                             k \in DOMAIN ReferenceUris(document),
                             j \in 1..MaxTextLines} \cap
                          {u \in Range(ReferenceUris(document))
                                   \X (1..MaxTextLines) :
                             u[2] <= Len(getTextForUri(u[1]))}}

\* C16: a references call that is not cancelled and not cut by its cap
\* returns, from the scanned files, every whole-token occurrence of the
\* symbol; with includeDeclaration false, every one but the definition
\* occurrences.
ReferencesByDeclaration ==
  (/\ Returned("references") /\ ~cancelled
   /\ query.enableReferences /\ query.word # NoMatch
   /\ Len(qOutcome.value) < query.max) =>
    {qOutcome.value[i] : i \in {j \in DOMAIN qOutcome.value :
                                  qOutcome.value[j].uri.folder # NoFolder}}
      = Occurrences(query.document, query.word, query.includeDeclaration)

\* The cap a configured number stands for: the number brought into
\* 20..20000, the default for a value that is not a number.
ConfiguredCap(configured, default) ==
  IF configured.finite THEN Min(20000, Max(20, configured.value))
  ELSE default

\* C17: a references result holds at most maxReferenceResults locations,
\* no two of them with the same file, line and column, and a workspace
\* symbol result holds at most maxWorkspaceSymbols entries, each cap brought
\* into 20..20000.
ResultsWithinCap ==
  /\ Returned("references") /\ query.enableReferences =>
       /\ Len(qOutcome.value)
            <= ConfiguredCap(query.configured, DEFAULT_MAX_REFERENCE_RESULTS)
       /\ \A i \in DOMAIN qOutcome.value : \A j \in DOMAIN qOutcome.value :
            LocationKey(qOutcome.value[i]) = LocationKey(qOutcome.value[j])
              => i = j
  /\ Returned("workspaceSymbols") =>
       Len(qOutcome.value)
         <= ConfiguredCap(query.configured, DEFAULT_MAX_WORKSPACE_SYMBOLS)

\* A references result has reached its cap with locations of the document
\* and locations of the pack, more pack occurrences being left out.
ResultsWithinCapWitness ==
  /\ Returned("references")
  /\ Len(qOutcome.value)
       = ConfiguredCap(query.configured, DEFAULT_MAX_REFERENCE_RESULTS)
  /\ \E i \in DOMAIN qOutcome.value : qOutcome.value[i].uri.folder # NoFolder
  /\ \E i \in DOMAIN qOutcome.value : qOutcome.value[i].uri.folder = NoFolder
  /\ Len(IndexHits(packContent, query.word)) + 1 > Len(qOutcome.value)

\* The kinds of the calls of the query providers.
ProviderKinds ==
  {"hover", "definition", "completion", "references", "workspaceSymbols"}

\* C18: no cancelled call of a query provider ends in a failure: once its
\* token is set the call returns, with none or with the results it has
\* accumulated.
CancelledNeverFails ==
  (qPc = "done" /\ query.kind \in ProviderKinds /\ cancelled) =>
    /\ qOutcome.status = "returned"
    /\ qOutcome.shape \in {"none", "list"}

\* C20: a failure of the index build of the document's scope does not
\* reach the editor through a query provider: hover and definition return
\* none, completion and references return a list; the commands show the
\* failure as an error message.
ProvidersAbsorbFailure ==
  /\ (qPc = "done"
        /\ query.kind \in {"hover", "definition", "completion", "references"})
       => qOutcome.status = "returned"
  /\ (qPc = "done" /\ qOutcome.shape = "showErrorMessage")
       => query.kind \in {"rebuild", "showTarget"}

\* The symbols of a workspace symbol result that come from this container.
EntriesOf(value, container) ==
  {value[i] : i \in {j \in DOMAIN value : value[j].container = container}}

\* The local symbols whose name includes the query, in the workspace files
\* and the open documents.
MatchingLocalSymbols(normalized) ==
  UNION {Range(LocalSymbolInfos(uri, getTextForUri(uri), normalized)) :
           uri \in Range(getWorkspaceAssemblyFiles)
                     \cup {d.uri : d \in Range(getOpenAssemblyDocumentMap)}}

\* The scopes getAllWorkspaceIndexScopes yields whose index is there: the
\* build of the scope has not failed.
ScopesWithIndex ==
  {k \in (IF workspaceFolders = {} THEN {INDEX_SCOPE_GLOBAL}
          ELSE {FolderKey(f) : f \in workspaceFolders}) :
     cachedIndexByScope[k] # 0}

\* C19: a workspace symbol result holds its local symbols before its pack
\* symbols, and pack symbols only when includeDfpInWorkspaceSymbols is set;
\* a call that is not cancelled and not cut by its cap returns every
\* matching local symbol and, when the setting is set, the matching pack
\* symbols of every scope whose build has not failed.
LocalSymbolsThenPack ==
  Returned("workspaceSymbols") =>
    /\ \A i \in DOMAIN qOutcome.value : \A j \in DOMAIN qOutcome.value :
         (qOutcome.value[i].container = "pack"
            /\ qOutcome.value[j].container = "local") => j < i
    /\ ~query.includeDfpInWorkspaceSymbols
         => EntriesOf(qOutcome.value, "pack") = {}
    /\ (~cancelled /\ query.normalized # <<>>
          /\ Len(qOutcome.value) < query.max) =>
         /\ EntriesOf(qOutcome.value, "local")
              = MatchingLocalSymbols(query.normalized)
         /\ query.includeDfpInWorkspaceSymbols =>
              EntriesOf(qOutcome.value, "pack")
                = IF ScopesWithIndex = {} THEN {}
                  ELSE Range(PackSymbolInfos(packContent, query.normalized))

\* A workspace symbol result holds local symbols and then the pack symbols
\* of one scope, the index build of another scope having failed.
LocalSymbolsThenPackWitness ==
  /\ Returned("workspaceSymbols") /\ ~cancelled
  /\ EntriesOf(qOutcome.value, "local") # {}
  /\ EntriesOf(qOutcome.value, "pack") # {}
  /\ \E b \in DOMAIN builds :
       /\ builds[b].state = "rejected"
       /\ builds[b].scope \in {FolderKey(f) : f \in workspaceFolders}
       /\ builds[b].scope \notin ScopesWithIndex

(***************************************************************************)
(* Version labels.                                                         *)
(***************************************************************************)

Sign(n) == IF n < 0 THEN -1 ELSE IF n > 0 THEN 1 ELSE 0

Compared == args.function = "compareVersionLabels" /\ result.kind = "number"

\* The component of a version label at a position, zero past its end.
Component(version, i) == PartAt(parseVersionParts(version), i)

Components(version) == Len(parseVersionParts(version))

\* The two labels have the same components up to a position.
SameBefore(a, b, i) == \A j \in 1..(i - 1) : Component(a, j) = Component(b, j)

SameComponents(a, b) ==
  \A i \in 1..Max(Components(a), Components(b)) :
    Component(a, i) = Component(b, i)

\* The sign follows the first differing pair of components.
SignOfFirstDifference(a, b, value) ==
  \A i \in 1..Max(Components(a), Components(b)) :
    SameBefore(a, b, i) /\ Component(a, i) # Component(b, i)
      => Sign(value) = Sign(Component(a, i) - Component(b, i))

Antisymmetric(a, b, value) == Sign(compareVersionLabels(b, a)) = -Sign(value)

Transitive(a, b, value) ==
  \A c \in Versions :
    value <= 0 /\ compareVersionLabels(b, c) <= 0
      => compareVersionLabels(a, c) <= 0

\* C21: compareVersionLabels orders version labels by their numeric
\* components from left to right, a missing component counting as zero: when
\* the padded component sequences differ, the sign of the result is the sign
\* of the difference of the first differing pair; the order is antisymmetric
\* and transitive.
VersionsOrderedByComponents ==
  Compared =>
    /\ SignOfFirstDifference(args.leftVersion, args.rightVersion, result.value)
    /\ Antisymmetric(args.leftVersion, args.rightVersion, result.value)
    /\ Transitive(args.leftVersion, args.rightVersion, result.value)

\* "2.3.10" compared with "2.3.9" is greater, although it sorts first as a
\* text.
VersionsOrderedByComponentsWitness ==
  /\ Compared
  /\ args.leftVersion = <<"2", ".", "3", ".", "1", "0">>
  /\ args.rightVersion = <<"2", ".", "3", ".", "9">>
  /\ result.value > 0
  /\ TextLocaleCompare(args.leftVersion, args.rightVersion) < 0

\* C22: two version labels whose padded component sequences are equal
\* compare equal, as "1.0" and "1.0.0".
EqualComponentsCompareEqual ==
  Compared /\ SameComponents(args.leftVersion, args.rightVersion)
    => result.value = 0

\* C22 as the code has it: with equal padded component sequences the result
\* is the order of the two labels as texts, zero only for the same text;
\* "1.0" compared with "1.0.0" is negative.
EqualComponentsCompareAsTexts ==
  Compared /\ SameComponents(args.leftVersion, args.rightVersion)
    => /\ Sign(result.value)
           = TextLocaleCompare(args.leftVersion, args.rightVersion)
       /\ (result.value = 0 <=> args.leftVersion = args.rightVersion)

EqualComponentsCompareAsTextsWitness ==
  /\ Compared
  /\ args.leftVersion = <<"1", ".", "0">>
  /\ args.rightVersion = <<"1", ".", "0", ".", "0">>
  /\ result.value < 0

(***************************************************************************)
(* Device inference.                                                       *)
(***************************************************************************)

Inferred ==
  args.function = "inferDeviceFromWorkspaceText" /\ result.kind = "device"

\* The texts of the files sampled: the first result.sampled files, an open
\* document in place of its file.
SampledTexts ==
  TextsOf(SelectSeq(WithOpenDocument(args.placed, args.open),
                    LAMBDA placement : placement.at \in 1..result.sampled))

\* The pattern hits of the texts: the constructs the four patterns accept.
IsHit(construct) == construct.form # "macro" \/ IsDeviceMacro(construct)

Hits(texts) ==
  {h \in UNION {{<<k, i>> : i \in DOMAIN texts[k]} : k \in DOMAIN texts} :
     IsHit(texts[h[1]][h[2]])}

HitName(construct) ==
  IF construct.form = "macro" THEN MacroName(construct.name)
  ELSE construct.name

HitDevice(texts, h) == normalizeGuessedDeviceName(HitName(texts[h[1]][h[2]]))

HitsOf(texts, device, form) ==
  Cardinality({h \in Hits(texts) : /\ texts[h[1]][h[2]].form = form
                                   /\ HitDevice(texts, h) = device})

\* The total of a device: 5 for each token, 8 for each macro, 12 for each
\* header include and 14 for each include-definition file.
Total(texts, device) ==
  5 * HitsOf(texts, device, "token") + 8 * HitsOf(texts, device, "macro")
    + 12 * HitsOf(texts, device, "include")
    + 14 * HitsOf(texts, device, "definc")

Candidates(texts) == {HitDevice(texts, h) : h \in Hits(texts)}

\* The device has the highest total, and the first name among those that
\* have it.
IsBest(texts, device) ==
  /\ device \in Candidates(texts)
  /\ \A other \in Candidates(texts) :
       \/ Total(texts, other) < Total(texts, device)
       \/ /\ Total(texts, other) = Total(texts, device)
          /\ TextLocaleCompare(device, other) <= 0

HighestTotalWins(texts) ==
  IF Candidates(texts) = {} THEN result.device = <<>>
  ELSE IsBest(texts, result.device)

\* The number a configured value stands for as it is written: the default
\* for a value that is not a number.
WrittenLimit(configured) ==
  IF configured.finite THEN configured.value
  ELSE DEFAULT_MAX_WORKSPACE_SCAN_FILES

\* C28: device inference sums, per canonical device name, the weights of the
\* pattern hits of the sampled files (5, 8, 12, 14) and returns the device
\* with the highest total, the first by name on a tie, none when there is no
\* candidate; at most the lesser of the configured scan limit and 60 files
\* are sampled.
InferenceByWeightWithinConfigured ==
  Inferred =>
    /\ HighestTotalWins(SampledTexts)
    /\ result.sampled <= Min(WrittenLimit(args.configured), 60)

\* C28 as the code has it: the scan limit is the configured value brought
\* into 20..10000, and at most the lesser of that limit and 60 files are
\* sampled.
InferenceByWeight ==
  Inferred =>
    /\ HighestTotalWins(SampledTexts)
    /\ result.sampled
         <= Min(Max(20, Min(10000, WrittenLimit(args.configured))), 60)

\* Two spellings of ATmega328P in two files add up to 17 while the file
\* past the scan limit, which would give ATtiny85 28, is not sampled.
InferenceByWeightWitness ==
  /\ Inferred
  /\ args.fileCount = 21
  /\ result.sampled = 20
  /\ result.device = <<"A", "T", "m", "e", "g", "a", "3", "2", "8", "P">>
  /\ Total(SampledTexts, result.device) = 17
  /\ <<"A", "T", "t", "i", "n", "y", "8", "5">> \notin Candidates(SampledTexts)

(***************************************************************************)
(* The device and the pack root resolveIndexFiles resolves.                *)
(***************************************************************************)

Resolved == args.function = "resolveIndexFiles" /\ result.kind = "resolved"

\* What the project descriptors give, when auto-detection is enabled.
Descriptor ==
  IF args.autoDetect THEN detectMplabTarget(args.projectFiles) ELSE NoTarget

\* The device each tier produces, from the highest tier to the lowest.
TierDevices ==
  << Trim(args.device), Descriptor.device,
     inferDeviceFromWorkspaceText(args.workspace),
     detectDeviceFromPack(args.atdf, result.packRoot) >>

\* The device of the first tier that produces one, none when none does.
FirstOfTiers(tiers) ==
  IF \A i \in DOMAIN tiers : tiers[i] = <<>> THEN <<>>
  ELSE tiers[CHOOSE i \in DOMAIN tiers :
               tiers[i] # <<>> /\ \A j \in 1..(i - 1) : tiers[j] = <<>>]

\* The installed version directories of the packs with the marker.
InstalledVersions ==
  UNION {{[packName |-> args.installed[i].packName,
           version |-> args.installed[i].versions[k].version] :
            k \in {k \in DOMAIN args.installed[i].versions :
                     args.installed[i].versions[k].isDirectory}} :
         i \in {i \in DOMAIN args.installed :
                  /\ args.installed[i].isDirectory
                  /\ EndsWithText(toUpperCase(args.installed[i].packName),
                                  <<"_", "D", "F", "P">>)}}

\* The greatest version, the first pack name among equal versions.
IsGreatest(entry, entries) ==
  \A other \in entries :
    \/ other = entry
    \/ compareVersionLabels(entry.version, other.version) > 0
    \/ /\ compareVersionLabels(entry.version, other.version) = 0
       /\ TextLocaleCompare(entry.packName, other.packName) < 0

GreatestInstalled(entries) ==
  IF entries = {} THEN <<>>
  ELSE PackRootPath(DEFAULT_PACK_VENDOR,
                    (CHOOSE e \in entries : IsGreatest(e, entries)).packName,
                    (CHOOSE e \in entries : IsGreatest(e, entries)).version)

\* The pack root by its three tiers.  The configured device is no part of it.
PackRootOfTiers(configuredPath, descriptor) ==
  IF configuredPath # <<>> THEN <<configuredPath>>
  ELSE IF descriptor.found /\ descriptor.pack.name # <<>>
          /\ descriptor.pack.version # <<>>
  THEN <<HomeDir, PacksDir, descriptor.pack.vendor, descriptor.pack.name,
         descriptor.pack.version>>
  ELSE GreatestInstalled(InstalledVersions)

\* C23: the resolved device is the configured device, else the device of the
\* project descriptor (with auto-detection enabled), else the device inferred
\* from the workspace text, else the device of the pack's atdf file names; a
\* lower tier is consulted only when every higher tier produced no device;
\* the configured device does not change the pack root.
DeviceByPriority ==
  Resolved =>
    /\ result.device = FirstOfTiers(TierDevices)
    /\ "inferDeviceFromWorkspaceText" \in result.called
         => TierDevices[1] = <<>> /\ TierDevices[2] = <<>>
    /\ "detectDeviceFromPack" \in result.called
         => TierDevices[1] = <<>> /\ TierDevices[2] = <<>>
            /\ TierDevices[3] = <<>>
    /\ result.packRoot = PackRootOfTiers(Trim(args.dfpPath), Descriptor)

\* No device is configured, the descriptor gives a pack and no device, and
\* the device comes from the workspace text without the pack being asked.
DeviceByPriorityWitness ==
  /\ Resolved
  /\ Trim(args.device) = <<>>
  /\ Descriptor.found /\ Descriptor.device = <<>>
  /\ result.device = <<"A", "T", "t", "i", "n", "y", "1", "3">>
  /\ "detectDeviceFromPack" \notin result.called
  /\ args.atdf # <<>>

\* C24: the pack root is the configured path; else the vendor/name/version
\* directory of the pack of the project descriptor, when it has a name and a
\* version; else the installed version directory with the greatest version
\* among the packs with the DFP marker, none when there is none; a
\* configured pack path does not suppress the detection of the device.
PackRootByPriority ==
  Resolved =>
    /\ result.packRoot = PackRootOfTiers(Trim(args.dfpPath), Descriptor)
    /\ Trim(args.dfpPath) # <<>>
         => /\ result.device = FirstOfTiers(TierDevices)
            /\ args.autoDetect => "detectMplabTarget" \in result.called

\* Nothing is configured and no descriptor gives a pack: of the installed
\* 2.3.9 and 2.3.10 the pack root is that of 2.3.10, of the pack ATmega_DFP
\* rather than ATtiny_DFP, which has the same version.
PackRootByPriorityWitness ==
  /\ Resolved
  /\ Trim(args.dfpPath) = <<>>
  /\ ~Descriptor.found
  /\ Cardinality(InstalledVersions) = 3
  /\ result.packRoot
       = PackRootPath(DEFAULT_PACK_VENDOR, <<"A", "T", "m", "e", "g", "a", "_", "D", "F", "P">>, <<"2", ".", "3", ".", "1", "0">>)

(***************************************************************************)
(* The cache of the local symbols.                                         *)
(***************************************************************************)

\* The table a scan of the lines gives: each name with its last definition,
\* every definition in line order.
IsFreshScan(value, document) ==
  /\ value.version = document.version
  /\ value.entries = DefiningEntries(document.lines)
  /\ \A i \in DOMAIN value.entries :
       MapGet(value.symbols, value.entries[i].symbol) =
         value.entries[CHOOSE j \in DOMAIN value.entries :
                         /\ value.entries[j].symbol = value.entries[i].symbol
                         /\ \A k \in DOMAIN value.entries :
                              value.entries[k].symbol = value.entries[i].symbol
                                => k <= j]
  /\ \A m \in DOMAIN value.symbols :
       \E i \in DOMAIN value.entries : value.entries[i] = value.symbols[m]

\* What getLocalSymbolData returned is a fresh scan of the document it was
\* called for, and it scanned only when the stored version differed.
ReturnsFreshScan ==
  localData.kind = "data" =>
    /\ IsFreshScan(localData.value, localData.document)
    /\ localData.scanned => localData.stored # localData.document.version

\* A close event deletes the entry of its document and no other.
CloseDeletesOwnEntry ==
  \A u \in EditedUris :
    CloseDocument(u) =>
      localSymbolCache' = [localSymbolCache EXCEPT ![u] = NoCached]

\* C25: after any sequence of edits, get calls and close events,
\* getLocalSymbolData(document) returns a table with the current version of
\* the document and the content of a fresh scan of its current text; it
\* scans only when the stored version differs; a close event removes the
\* entry of its document and no other.
LocalSymbolsFresh == []ReturnsFreshScan /\ [][CloseDeletesOwnEntry]_vars

(***************************************************************************)
(* The in-flight entries of the builds.                                    *)
(***************************************************************************)

\* buildDfpIndex of the build has not resolved or thrown yet.
Running(b) == b \in DOMAIN builds /\ builds[b].state = "running"

\* C26: the in-flight entry of a scope is removed only after the build it
\* refers to has settled: while a build is running, the entry of its scope
\* is present and is this build, whatever getIndex calls and invalidation
\* events occur.
InFlightEntryKeptWhileRunning ==
  \A b \in 1..MaxBuilds :
    Running(b) => indexBuildPromiseByScope[builds[b].scope] = b

\* C29: a build that settles removes only its own in-flight entry: the
\* .finally callback of a build leaves the entry of every other build in
\* place.
SettlingRemovesOwnEntryOnly ==
  [][\A b \in 1..MaxBuilds :
       BuildFinally(b) =>
         \A k \in ScopeKeys :
           indexBuildPromiseByScope[k] # b =>
             indexBuildPromiseByScope'[k] = indexBuildPromiseByScope[k]]_vars

\* A call that started or joined a build is recorded with it.
Awaited(b) == \E c \in calls : c.kind # "cached" /\ c.build = b

NoBuildRunning == \A b \in DOMAIN builds : Settled(builds[b])

NoInFlightEntry == \A k \in ScopeKeys : indexBuildPromiseByScope[k] = 0

\* C30: where every started build settles, every getIndex call that awaits a
\* build gets its index or its failure in the end, and whenever no build is
\* running the in-flight map holds no entry for any scope.
EveryCallReturns ==
  /\ \A b \in 1..MaxBuilds :
       Awaited(b) ~> (b \in DOMAIN builds /\ Settled(builds[b]))
  /\ [](NoBuildRunning => NoInFlightEntry)

\* A scope was rebuilt by force while its first build was running; both
\* builds have settled, their callers are served and no entry is left.
EveryCallReturnsWitness ==
  /\ Len(builds) = 2
  /\ builds[1].scope = builds[2].scope
  /\ Awaited(1) /\ Awaited(2)
  /\ \E c \in calls : c.force /\ c.build = 2
  /\ NoBuildRunning
  /\ NoInFlightEntry

(***************************************************************************)
(* The name list of a built pack index.                                    *)
(***************************************************************************)

\* The names the symbol map of an index has a key for.
KeysOf(index) == {name \in Names : index.symbols[name] # <<>>}

\* The list ascends strictly in the order of localeCompare, the order the
\* build sorts by: no name comes twice, and no pair is out of order.
AscendingNames(list) ==
  \A i \in DOMAIN list : \A j \in DOMAIN list :
    i < j => localeCompare(list[i], list[j]) < 0

NameListOf(index) ==
  /\ AscendingNames(index.symbolList)
  /\ Range(index.symbolList) = KeysOf(index)
  /\ Cardinality(Range(index.symbolList)) = Len(index.symbolList)
  /\ \A i \in DOMAIN index.symbolList :
       Len(index.symbols[index.symbolList[i]]) >= 1

NameListsSorted == NameListOf(builtIndex) /\ NameListOf(previousIndex)

\* The list of the returned index changes only where a build completes, and
\* the index returned before keeps the list it had.
NameListSortedAtCompletion ==
  builtIndex'.symbolList # builtIndex.symbolList =>
    /\ buildPc = "scan" /\ buildPc' = "done"
    /\ builtIndex'.symbolList = SortNames(symbolList)
    /\ previousIndex' = builtIndex

====
